---- MODULE Spec2Model ----
(***************************************************************************)
(* A model of the SeisFlows session state (seisflows/config.py): the six   *)
(* role entries and the two configuration mappings kept in sys.modules,    *)
(* their checkpoint on disk (save / load), flush, and the resolver         *)
(* custom_import; with them the pickling of bound methods                  *)
(* (_pickle_method, _unpickle_method and their registration) and the       *)
(* worker pool of the rotation calls of seisflows/preprocess/noise.py;     *)
(* the NoiseInversion workflow (seisflows/workflow/noise_inversion.py) and *)
(* the Fortran binary files of seisflows/plugins/solver_io.                *)
(*                                                                         *)
(* Conventions.  An optional Python value is None == <<>> or Some(v) ==    *)
(* <<v>>.  Role names are atomic strings; implementation (module) names    *)
(* and class names are tuples of one-character strings so that the string  *)
(* operations of custom_import (isupper, title, replace) are computed.     *)
(* An f-string such as f"seisflows_{name}.p" is the tuple of its parts.    *)
(***************************************************************************)
EXTENDS Integers, Sequences, FiniteSets, TLC

VARIABLES
    sys_modules,   \* the seisflows_* entries of sys.modules: key -> object
    disk,          \* the file system: existing directory -> (file name -> content)
    alive,         \* FALSE once the process has called sys.exit
    lastOp,        \* the last call made and how it ended
    saved,         \* history: per directory, the session the last save call stored
    stale,         \* history: per directory, the files an earlier save call wrote
    call,          \* the last call custom_import(name, module, classname) and its outcome
    pickling,      \* the classes in force and the last call of the method pickling pair
    adapter,       \* the import of seisflows.config and the events of the process
    pool,          \* a rotation call of preprocess.noise and the jobs of its worker pool
    inversion,     \* a NoiseInversion workflow: its instance, its scratch traces, its tasks
    fortran,       \* the last Fortran binary file written and what was read from it
    search         \* a run of Test.test_optimize: its position and the calls it made

\* The variables the session operations leave alone.
otherVars == <<call, pickling, adapter, pool, inversion, fortran, search>>

vars == <<sys_modules, disk, alive, lastOp, saved, stale, call, pickling, adapter, pool,
          inversion, fortran, search>>

(***************************************************************************)
(* Bounds of the model.                                                    *)
(***************************************************************************)
\* A task may advance the internal counter of an instance up to MaxCount.
MaxCount == 1

(***************************************************************************)
(* Python values.                                                          *)
(***************************************************************************)
None == <<>>
Some(v) == <<v>>

\* config.py:42-43
NAMES == <<"system", "preprocess", "solver", "postprocess", "optimize", "workflow">>
NameSet == {NAMES[i] : i \in DOMAIN NAMES}

\* The two configuration mappings save and load iterate over (config.py:77, 98).
CONFIGS == <<"parameters", "paths">>
ConfigSet == {CONFIGS[i] : i \in DOMAIN CONFIGS}

\* The sys.modules key "seisflows_<name>".
ModKey(name) == <<"seisflows_", name>>
RoleKeys == {ModKey(n) : n \in NameSet}

\* The null sentinel seisflows.core.Null, as custom_import returns it.
Null == [kind |-> "Null"]

\* ---- characters and strings ------------------------------------------------
Lowers == <<"a","b","c","d","e","f","g","h","i","j","k","l","m",
            "n","o","p","q","r","s","t","u","v","w","x","y","z">>
Uppers == <<"A","B","C","D","E","F","G","H","I","J","K","L","M",
            "N","O","P","Q","R","S","T","U","V","W","X","Y","Z">>

IsLower(c) == \E i \in DOMAIN Lowers : Lowers[i] = c
IsUpper(c) == \E i \in DOMAIN Uppers : Uppers[i] = c
IsCased(c) == IsLower(c) \/ IsUpper(c)
UpperChar(c) == IF IsLower(c) THEN Uppers[CHOOSE i \in DOMAIN Lowers : Lowers[i] = c] ELSE c
LowerChar(c) == IF IsUpper(c) THEN Lowers[CHOOSE i \in DOMAIN Uppers : Uppers[i] = c] ELSE c

\* The mutant of isupper: a name with a character that is no letter is not
\* uppercase.
isupper_letters_only(s) == s # <<>> /\ \A i \in DOMAIN s : IsUpper(s[i])

\* str.isupper(): at least one cased character and no lowercase one.
isupper(s) == (\E i \in DOMAIN s : IsCased(s[i])) /\ (\A i \in DOMAIN s : ~IsLower(s[i]))
\* str.upper() on a tuple of characters.
upper(s) == [i \in DOMAIN s |-> UpperChar(s[i])]
\* The mutant of title: only the first character is uppercased (capitalize).
title_first_only(s) == [i \in DOMAIN s |-> IF i > 1 THEN LowerChar(s[i]) ELSE UpperChar(s[i])]

\* str.title(): a cased character is uppercased when it starts a word (it
\* follows no cased character) and lowercased otherwise.
title(s) == [i \in DOMAIN s |->
               IF i > 1 /\ IsCased(s[i - 1]) THEN LowerChar(s[i]) ELSE UpperChar(s[i])]
\* str.replace(c, ""): drop every occurrence of the character c.
RECURSIVE remove(_, _)
remove(s, c) == IF s = <<>> THEN <<>>
                ELSE IF Head(s) = c THEN remove(Tail(s), c)
                ELSE <<Head(s)>> \o remove(Tail(s), c)

\* The ordering of characters by code point, as Python compares strings:
\* "-" < "A".."Z" < "_" < "a".."z".
Alphabet == <<"-">> \o Uppers \o <<"_">> \o Lowers
Ord(c) == CHOOSE i \in DOMAIN Alphabet : Alphabet[i] = c
\* s < t for two strings (lexicographic by code point).
RECURSIVE StrLess(_, _)
StrLess(s, t) == IF t = <<>> THEN FALSE
                 ELSE IF s = <<>> THEN TRUE
                 ELSE IF Head(s) = Head(t) THEN StrLess(Tail(s), Tail(t))
                 ELSE Ord(Head(s)) < Ord(Head(t))

\* name.upper() for a role name (config.py:222): the parameter key of the role.
RoleKeyOf(name) ==
    CASE name = "system" -> <<"S","Y","S","T","E","M">>
      [] name = "preprocess" -> <<"P","R","E","P","R","O","C","E","S","S">>
      [] name = "solver" -> <<"S","O","L","V","E","R">>
      [] name = "postprocess" -> <<"P","O","S","T","P","R","O","C","E","S","S">>
      [] name = "optimize" -> <<"O","P","T","I","M","I","Z","E">>
      [] name = "workflow" -> <<"W","O","R","K","F","L","O","W">>

(***************************************************************************)
(* Dict: a Python mapping, kept as the sequence of its (key, value) items  *)
(* in insertion order, keys unique.                                        *)
(***************************************************************************)
Dict(items) == [kind |-> "Dict", items |-> items]
HasKey(d, k) == \E i \in DOMAIN d.items : d.items[i][1] = k
\* d[k] for a key the mapping holds.
GetItem(d, k) == d.items[CHOOSE i \in DOMAIN d.items : d.items[i][1] = k][2]
\* The (key, value) pairs of a mapping: Python's == on two dicts compares these.
Pairs(d) == {d.items[i] : i \in DOMAIN d.items}

(***************************************************************************)
(* The implementation modules installed under the package, by dotted name, *)
(* with the classes each defines and whether importing it succeeds.        *)
(***************************************************************************)
Package ==
    { [dotted |-> <<"seisflows", "workflow", <<"t","e","s","t">>>>,
       importable |-> TRUE,
       \* the class, and a function the module imports (test.py:14)
       classes |-> {<<"T","e","s","t">>, <<"g","l","o","b">>}],
      [dotted |-> <<"seisflows", "workflow", <<"b","a","s","e">>>>,
       importable |-> TRUE, classes |-> {<<"B","a","s","e">>}],
      [dotted |-> <<"seisflows", "preprocess", <<"n","o","i","s","e">>>>,
       importable |-> TRUE, classes |-> {<<"N","o","i","s","e">>}],
      [dotted |-> <<"seisflows", "workflow",
                    <<"n","o","i","s","e","_","i","n","v","e","r","s","i","o","n">>>>,
       importable |-> TRUE,
       classes |-> {<<"N","o","i","s","e","I","n","v","e","r","s","i","o","n">>}],
      [dotted |-> <<"seisflows", "optimize", <<"L","B","F","G","S">>>>,
       importable |-> TRUE, classes |-> {<<"L","B","F","G","S">>}],
      [dotted |-> <<"seisflows", "solver", <<"p","y","a","t","o","a">>>>,
       importable |-> FALSE, classes |-> {<<"P","y","a","t","o","a">>}] }

\* The names a class body of the package defines; glob is a function and
\* defines none.  The parent classes are outside the package sources read.
Members(classname) ==
    IF classname = <<"T","e","s","t">>
    THEN {"required", "check", "main", "test_function", "test_system",
          "test_preprocess", "test_solver", "test_optimize"}
    ELSE IF classname = <<"N","o","i","s","e","I","n","v","e","r","s","i","o","n">>
    THEN {"__init__", "check", "task_list", "syn_path", "prepare_data_for_solver",
          "run_forward_simulations", "evaluate_objective_function",
          "generate_zz_kernels", "generate_tt_rr_kernels", "perform_line_search"}
    ELSE IF classname = <<"N","o","i","s","e">>
    THEN {"__init__", "rotate_ne_traces_to_rt", "_rotate_ne_trace_to_rt",
          "rotate_rt_adjsrcs_to_ne", "_rotate_rt_adjsrc_to_ne"}
    ELSE {}

\* Whether getattr(obj, capability) finds the attribute: it does when the
\* class body defines it, it does not on the function glob, and for a class
\* with a parent class it depends on that parent.
Exposes(classname, capability) ==
    IF capability \in Members(classname) THEN {TRUE}
    ELSE IF classname = <<"g","l","o","b">> THEN {FALSE}
    ELSE BOOLEAN

\* The capability a role implementation is used for.
Required(name) ==
    [system |-> "run", preprocess |-> "quantify_misfit", solver |-> "forward_simulation",
     postprocess |-> "sum_kernels", optimize |-> "compute_direction",
     workflow |-> "task_list"][name]

\* seisflows.tools.wrappers.module_exists(full_dotted_name)
module_exists(dotted) == \E m \in Package : m.dotted = dotted
ModuleOf(dotted) == CHOOSE m \in Package : m.dotted = dotted

(***************************************************************************)
(* custom_import(name, module, classname), reading the parameters mapping  *)
(* from mods (sys.modules).  The result records what the call returned,    *)
(* whether it ended in sys.exit(-1), and the steps it took.                *)
(***************************************************************************)
NoReturn == [kind |-> "none"]
Class(dotted, classname) == [kind |-> "class", dotted |-> dotted, classname |-> classname]
Exit(events) == [ret |-> NoReturn, exit |-> TRUE, events |-> events]
Return(v, events) == [ret |-> v, exit |-> FALSE, events |-> events]

\* The outcome r of a call that has derived the class name cls (line 229 on).
Sought(cls, r) == [ret |-> r.ret, exit |-> r.exit, events |-> r.events, cls |-> cls]

\* The mutant of import_class: a module that does not exist resolves to the
\* null sentinel and the run goes on.
import_class_missing_is_null(name, module, classname, events) ==
    LET cls == IF classname # None THEN classname[1]
               ELSE IF isupper(module) THEN upper(module)
               ELSE remove(title(module), "_")
        full_dotted_name == <<"seisflows", name, module>>
        ev1 == Append(events, "module_exists")
        ev2 == Append(ev1, "import_module")
        ev3 == Append(ev2, "getattr")
    IN  IF ~module_exists(full_dotted_name) THEN Sought(cls, Return(Null, ev1))
        ELSE IF ~ModuleOf(full_dotted_name).importable THEN Sought(cls, Exit(ev2))
        ELSE IF cls \in ModuleOf(full_dotted_name).classes
             THEN Sought(cls, Return(Class(full_dotted_name, cls), ev3))
        ELSE Sought(cls, Exit(ev3))

\* The mutant of import_class: what is found in the module is returned only
\* if it can expose the capability of the role.
import_class_validates(name, module, classname, events) ==
    LET cls == IF classname # None THEN classname[1]
               ELSE IF isupper(module) THEN upper(module)
               ELSE remove(title(module), "_")
        full_dotted_name == <<"seisflows", name, module>>
        ev1 == Append(events, "module_exists")
        ev2 == Append(ev1, "import_module")
        ev3 == Append(ev2, "getattr")
    IN  IF ~module_exists(full_dotted_name) THEN Sought(cls, Exit(ev1))
        ELSE IF ~ModuleOf(full_dotted_name).importable THEN Sought(cls, Exit(ev2))
        ELSE IF cls \in ModuleOf(full_dotted_name).classes
                /\ TRUE \in Exposes(cls, Required(name))
             THEN Sought(cls, Return(Class(full_dotted_name, cls), ev3))
        ELSE Sought(cls, Exit(ev3))

\* config.py:229-264, with module and classname as strings.
import_class(name, module, classname, events) ==
    LET cls == IF classname # None THEN classname[1]
               ELSE IF isupper(module) THEN upper(module)
               ELSE remove(title(module), "_")
        full_dotted_name == <<"seisflows", name, module>>
        ev1 == Append(events, "module_exists")
        ev2 == Append(ev1, "import_module")
        ev3 == Append(ev2, "getattr")
    IN  IF ~module_exists(full_dotted_name) THEN Sought(cls, Exit(ev1))
        ELSE IF ~ModuleOf(full_dotted_name).importable THEN Sought(cls, Exit(ev2))
        ELSE IF cls \in ModuleOf(full_dotted_name).classes
             THEN Sought(cls, Return(Class(full_dotted_name, cls), ev3))
        ELSE Sought(cls, Exit(ev3))

\* The mutant of custom_import: the role is validated only after the module
\* has been looked for.
custom_import_checks_role_late(name, module, classname, mods) ==
    IF name = None THEN Exit(<<>>)
    ELSE IF module # None
    THEN LET r == import_class(name[1], module[1], classname, <<>>)
         IN  IF name[1] \notin NameSet THEN Exit(r.events) ELSE r
    ELSE IF name[1] \notin NameSet THEN Exit(<<>>)
    ELSE LET par == ModKey("parameters")
             key == RoleKeyOf(name[1])
         IN  IF par \notin DOMAIN mods \/ ~HasKey(mods[par], key)
             THEN Return(Null, <<"lookup">>)
             ELSE IF GetItem(mods[par], key) = None
             THEN Return(Null, <<"lookup">>)
             ELSE import_class(name[1], GetItem(mods[par], key)[1], classname, <<"lookup">>)

\* The mutant of custom_import: a missing or null parameter falls back to
\* the class of the instance the role currently holds.
custom_import_keeps_previous(name, module, classname, mods) ==
    IF name = None \/ name[1] \notin NameSet THEN Exit(<<>>)
    ELSE IF module # None THEN import_class(name[1], module[1], classname, <<>>)
    ELSE LET par == ModKey("parameters")
             key == RoleKeyOf(name[1])
             configured == par \in DOMAIN mods /\ HasKey(mods[par], key)
                           /\ GetItem(mods[par], key) # None
             rk == ModKey(name[1])
         IN  IF configured
             THEN import_class(name[1], GetItem(mods[par], key)[1], classname, <<"lookup">>)
             ELSE IF rk \in DOMAIN mods /\ mods[rk].kind = "inst"
             THEN Return(Class(mods[rk].dotted, mods[rk].classname), <<"lookup">>)
             ELSE Return(Null, <<"lookup">>)

\* The mutant of custom_import: a role without a key in the parameters
\* mapping is not treated as "not configured" and the call fails on it.
custom_import_key_required(name, module, classname, mods) ==
    IF name = None \/ name[1] \notin NameSet THEN Exit(<<>>)
    ELSE IF module # None THEN import_class(name[1], module[1], classname, <<>>)
    ELSE LET par == ModKey("parameters")
             key == RoleKeyOf(name[1])
         IN  IF par \notin DOMAIN mods \/ ~HasKey(mods[par], key)
             THEN Exit(<<"lookup">>)
             ELSE IF GetItem(mods[par], key) = None
             THEN Return(Null, <<"lookup">>)
             ELSE import_class(name[1], GetItem(mods[par], key)[1], classname, <<"lookup">>)

\* config.py:180-264
custom_import(name, module, classname, mods) ==
    IF name = None THEN Exit(<<>>)
    ELSE IF name[1] \notin NameSet THEN Exit(<<>>)
    ELSE IF module # None THEN import_class(name[1], module[1], classname, <<>>)
    ELSE LET par == ModKey("parameters")
             key == RoleKeyOf(name[1])
         IN  IF par \notin DOMAIN mods \/ ~HasKey(mods[par], key)
             THEN Return(Null, <<"lookup">>)                      \* except KeyError
             ELSE IF GetItem(mods[par], key) = None
             THEN Return(Null, <<"lookup">>)                      \* turned off
             ELSE import_class(name[1], GetItem(mods[par], key)[1], classname, <<"lookup">>)

(***************************************************************************)
(* Component instances.  An instance is an object of a resolved class with *)
(* its internal mutable state (a counter); the role entry of a disabled    *)
(* role is Null.                                                           *)
(***************************************************************************)
Instance(cls, n) == [kind |-> "inst", dotted |-> cls.dotted, classname |-> cls.classname, n |-> n]
\* Calling what custom_import returned: Null() is Null, Cls() a fresh instance.
Instantiate(cls) == IF cls = Null THEN Null ELSE Instance(cls, 0)

(***************************************************************************)
(* Files.  A file holds JSON text, a pickle, or nothing (a file that was   *)
(* opened for writing and never written).                                  *)
(***************************************************************************)
EmptyFile == [file |-> "empty"]
EmptyDir == [f \in {} |-> EmptyFile]

\* sorted(items) by key: insertion sort of (key, value) items.
RECURSIVE InsertSorted(_, _)
InsertSorted(item, sorted) ==
    IF sorted = <<>> THEN <<item>>
    ELSE IF StrLess(item[1], Head(sorted)[1]) THEN <<item>> \o sorted
    ELSE <<Head(sorted)>> \o InsertSorted(item, Tail(sorted))
RECURSIVE SortItems(_)
SortItems(items) == IF items = <<>> THEN <<>>
                    ELSE InsertSorted(Head(items), SortItems(Tail(items)))

\* A Python value as JSON: None is null, a string is a JSON string.
ToJson(v) == IF v = None THEN <<"null">> ELSE <<"string", v[1]>>
FromJson(j) == IF j[1] = "null" THEN None ELSE Some(j[2])

\* The mutant of json_dump: the members are in the insertion order of the
\* mapping.
json_dump_insertion_order(d) ==
    [file |-> "json",
     members |-> [i \in DOMAIN d.items |-> <<d.items[i][1], ToJson(d.items[i][2])>>]]

\* json.dump(d, f, sort_keys=True, indent=4): the members in key order.
json_dump(d) ==
    LET sorted == SortItems(d.items)
    IN  [file |-> "json",
         members |-> [i \in DOMAIN sorted |-> <<sorted[i][1], ToJson(sorted[i][2])>>]]
\* Dict(json.load(f)): the members in file order.
json_load(f) ==
    Dict([i \in DOMAIN f.members |-> <<f.members[i][1], FromJson(f.members[i][2])>>])

\* pickle.dump(obj, f): an instance is stored as a reference to its class
\* (module and class name) and its state; Null as a reference to itself.
pickle_dump(obj) ==
    IF obj.kind = "inst"
    THEN [file |-> "pickle", global |-> <<obj.dotted, obj.classname>>, state |-> Some(obj.n)]
    ELSE [file |-> "pickle", global |-> <<<<"seisflows", "core">>, <<"N","u","l","l">>>>, state |-> None]
\* The mutant of pickle_load: the instance is rebuilt without its state.
pickle_load_drops_state(f) ==
    IF f.state = None THEN Null
    ELSE Instance(Class(f.global[1], f.global[2]), 0)

\* pickle.load(f): the class is found again by name and the state restored.
pickle_load(f) ==
    IF f.state = None THEN Null
    ELSE Instance(Class(f.global[1], f.global[2]), f.state[1])

\* The mutant of RoleFile: the file name does not depend on the role.
RoleFile_one_for_all(name) == <<"seisflows_", "role", ".p">>

\* The file names of a checkpoint (config.py:78, 84, 99, 105).
ConfigFile(name) == <<"seisflows_", name, ".json">>
RoleFile(name) == <<"seisflows_", name, ".p">>
CheckpointFiles == {ConfigFile(c) : c \in ConfigSet} \cup {RoleFile(n) : n \in NameSet}

\* The mutant of Write: a file that exists is left as it is.
Write_keeps_existing(files, file, content) ==
    IF file \in DOMAIN files THEN files ELSE (file :> content) @@ files

\* open(fullfile, "w"): the file is created or truncated, then written.
Write(files, file, content) == (file :> content) @@ files

(***************************************************************************)
(* save(path), config.py:64-86.  Each loop is a recursion over its list;   *)
(* a step opens (truncates) the file, then looks the object up in          *)
(* sys.modules (KeyError when absent), then dumps it.                      *)
(***************************************************************************)
Done(files, written, raised) == [files |-> files, written |-> written, raised |-> raised]

\* The mutant of save_config: only the parameters mapping is written.
save_config_parameters_only(files, written, mods, i) ==
    LET fullfile == ConfigFile("parameters")
        key == ModKey("parameters")
    IN  IF key \notin DOMAIN mods
        THEN Done(Write(files, fullfile, EmptyFile), Append(written, fullfile), "KeyError")
        ELSE Done(Write(files, fullfile, json_dump(mods[key])), Append(written, fullfile), "none")

RECURSIVE save_config(_, _, _, _)
save_config(files, written, mods, i) ==
    IF i > Len(CONFIGS) THEN Done(files, written, "none")
    ELSE LET fullfile == ConfigFile(CONFIGS[i])
             key == ModKey(CONFIGS[i])
         IN  IF key \notin DOMAIN mods
             THEN Done(Write(files, fullfile, EmptyFile), Append(written, fullfile), "KeyError")
             ELSE save_config(Write(files, fullfile, json_dump(mods[key])),
                              Append(written, fullfile), mods, i + 1)

\* The mutant of save_roles: a role whose entry is Null gets no file.
RECURSIVE save_roles_skips_null(_, _, _, _)
save_roles_skips_null(files, written, mods, i) ==
    IF i > Len(NAMES) THEN Done(files, written, "none")
    ELSE LET fullfile == RoleFile(NAMES[i])
             key == ModKey(NAMES[i])
         IN  IF key \notin DOMAIN mods
             THEN Done(Write(files, fullfile, EmptyFile), Append(written, fullfile), "KeyError")
             ELSE IF mods[key] = Null
             THEN save_roles_skips_null(files, written, mods, i + 1)
             ELSE save_roles_skips_null(Write(files, fullfile, pickle_dump(mods[key])),
                                        Append(written, fullfile), mods, i + 1)

\* The mutant of save_roles: a role without an entry gets the file of a
\* disabled role.
RECURSIVE save_roles_writes_null_marker(_, _, _, _)
save_roles_writes_null_marker(files, written, mods, i) ==
    IF i > Len(NAMES) THEN Done(files, written, "none")
    ELSE LET fullfile == RoleFile(NAMES[i])
             key == ModKey(NAMES[i])
         IN  save_roles_writes_null_marker(
                 Write(files, fullfile,
                       pickle_dump(IF key \in DOMAIN mods THEN mods[key] ELSE Null)),
                 Append(written, fullfile), mods, i + 1)

RECURSIVE save_roles(_, _, _, _)
save_roles(files, written, mods, i) ==
    IF i > Len(NAMES) THEN Done(files, written, "none")
    ELSE LET fullfile == RoleFile(NAMES[i])
             key == ModKey(NAMES[i])
         IN  IF key \notin DOMAIN mods
             THEN Done(Write(files, fullfile, EmptyFile), Append(written, fullfile), "KeyError")
             ELSE save_roles(Write(files, fullfile, pickle_dump(mods[key])),
                             Append(written, fullfile), mods, i + 1)

\* The mutant of save_files: the role files are written before the
\* configuration files.
save_files_roles_first(files, mods) ==
    LET c == save_roles(files, <<>>, mods, 1)
    IN  IF c.raised # "none" THEN c ELSE save_config(c.files, c.written, mods, 1)

\* The outcome of save on the files of a directory; written is the files
\* opened for writing, in the order of their opening.
save_files(files, mods) ==
    LET c == save_config(files, <<>>, mods, 1)
    IN  IF c.raised # "none" THEN c ELSE save_roles(c.files, c.written, mods, 1)

(***************************************************************************)
(* load(path), config.py:89-107.  Each step opens the file                 *)
(* (FileNotFoundError), decodes it (JSONDecodeError, EOFError on an empty  *)
(* file) and assigns the entry of sys.modules at once.                     *)
(***************************************************************************)
\* opened is the files opened and read, in the order of their opening.
Loaded(mods, raised) == [mods |-> mods, raised |-> raised, opened |-> <<>>]
After(fullfile, r) == [r EXCEPT !.opened = <<fullfile>> \o @]

RECURSIVE load_config(_, _, _)
load_config(mods, files, i) ==
    IF i > Len(CONFIGS) THEN Loaded(mods, "none")
    ELSE LET fullfile == ConfigFile(CONFIGS[i])
         IN  IF fullfile \notin DOMAIN files THEN Loaded(mods, "FileNotFoundError")
             ELSE IF files[fullfile] = EmptyFile
             THEN After(fullfile, Loaded(mods, "JSONDecodeError"))
             ELSE After(fullfile,
                        load_config((ModKey(CONFIGS[i]) :> json_load(files[fullfile])) @@ mods,
                                    files, i + 1))

\* The mutant of load_roles: a role that has an entry in sys.modules keeps
\* it.
RECURSIVE load_roles_keeps_entries(_, _, _)
load_roles_keeps_entries(mods, files, i) ==
    IF i > Len(NAMES) THEN Loaded(mods, "none")
    ELSE LET fullfile == RoleFile(NAMES[i])
         IN  IF fullfile \notin DOMAIN files THEN Loaded(mods, "FileNotFoundError")
             ELSE IF files[fullfile] = EmptyFile
             THEN After(fullfile, Loaded(mods, "EOFError"))
             ELSE After(fullfile,
                        load_roles_keeps_entries(
                            mods @@ (ModKey(NAMES[i]) :> pickle_load(files[fullfile])),
                            files, i + 1))

RECURSIVE load_roles(_, _, _)
load_roles(mods, files, i) ==
    IF i > Len(NAMES) THEN Loaded(mods, "none")
    ELSE LET fullfile == RoleFile(NAMES[i])
         IN  IF fullfile \notin DOMAIN files THEN Loaded(mods, "FileNotFoundError")
             ELSE IF files[fullfile] = EmptyFile
             THEN After(fullfile, Loaded(mods, "EOFError"))
             ELSE After(fullfile,
                        load_roles((ModKey(NAMES[i]) :> pickle_load(files[fullfile])) @@ mods,
                                   files, i + 1))

\* The outcome of load on the files of a directory.
load_files(mods, files) ==
    LET c == load_config(mods, files, 1)
        r == load_roles(c.mods, files, 1)
    IN  IF c.raised # "none" THEN c ELSE [r EXCEPT !.opened = c.opened \o @]

\* The mutant of flushed: the parameters and paths entries are deleted with
\* the role entries.
flushed_drops_configuration(mods) ==
    [k \in DOMAIN mods \ (RoleKeys \cup {ModKey(c) : c \in ConfigSet}) |-> mods[k]]

\* The mutant of flushed: the role entries are set to Null, not deleted.
flushed_sets_null(mods) ==
    [k \in DOMAIN mods |-> IF k \in RoleKeys THEN Null ELSE mods[k]]

\* flush(), config.py:119-122: the role entries that exist are deleted.
flushed(mods) == [k \in DOMAIN mods \ RoleKeys |-> mods[k]]

(***************************************************************************)
(* Inputs: the directories a session is saved to and the configurations a  *)
(* user supplies (parameters and paths, in the order the user wrote them). *)
(***************************************************************************)
Dirs == {"ckpt"}

K_OUTPUT == <<"O","U","T","P","U","T">>
K_WORKDIR == <<"W","O","R","K","D","I","R">>

Sessions ==
    { \* preprocess and workflow active, solver turned off, the rest not configured
      [parameters |-> << <<RoleKeyOf("workflow"), Some(<<"t","e","s","t">>)>>,
                         <<RoleKeyOf("solver"), None>>,
                         <<RoleKeyOf("preprocess"), Some(<<"n","o","i","s","e">>)>> >>,
       paths |-> << <<K_WORKDIR, Some(<<"w">>)>>, <<K_OUTPUT, Some(<<"o">>)>> >>],
      \* optimize and workflow active, with an all-uppercase implementation name
      [parameters |-> << <<RoleKeyOf("workflow"), Some(<<"b","a","s","e">>)>>,
                         <<RoleKeyOf("optimize"), Some(<<"L","B","F","G","S">>)>> >>,
       paths |-> << <<K_OUTPUT, Some(<<"p">>)>> >>],
      \* a system implementation that is not installed
      [parameters |-> << <<RoleKeyOf("workflow"), Some(<<"t","e","s","t">>)>>,
                         <<RoleKeyOf("system"), Some(<<"s","l","u","r","m">>)>> >>,
       paths |-> << <<K_OUTPUT, Some(<<"o">>)>> >>],
      \* a solver implementation that is not installed, between two roles
      \* whose implementations are
      [parameters |-> << <<RoleKeyOf("preprocess"), Some(<<"n","o","i","s","e">>)>>,
                         <<RoleKeyOf("solver"), Some(<<"s","p","e","c","f","e","m">>)>>,
                         <<RoleKeyOf("workflow"), Some(<<"t","e","s","t">>)>> >>,
       paths |-> << <<K_OUTPUT, Some(<<"o">>)>> >>] }

(***************************************************************************)
(* The record of the last call.                                            *)
(***************************************************************************)
Op(op, path, name, raised, ret, events, flag) ==
    [op |-> op, path |-> path, name |-> name, raised |-> raised,
     ret |-> ret, events |-> events, flag |-> flag]

\* What load(path) would produce from an empty sys.modules: the session a
\* directory holds, when it holds one.
Decoded(path) == load_files(EmptyDir, disk[path])

\* Python equality of two sessions: the same keys, equal objects (two
\* mappings are equal when they hold the same (key, value) pairs).
ObjEq(a, b) == IF a.kind = "Dict" /\ b.kind = "Dict" THEN Pairs(a) = Pairs(b) ELSE a = b
SessionEq(m1, m2) == /\ DOMAIN m1 = DOMAIN m2
                     /\ \A k \in DOMAIN m1 : ObjEq(m1[k], m2[k])

(***************************************************************************)
(* Bound methods and their pickling, config.py:267-304.  A class is known  *)
(* by its method-resolution order and by the functions its dictionary      *)
(* defines; the dictionaries are those of the code installed in the        *)
(* process, which may differ between the pickling and the unpickling one.  *)
(***************************************************************************)
\* class Test(custom_import("workflow", "base")), test.py:29.
TestClass == Class(<<"seisflows", "workflow", <<"t","e","s","t">>>>, <<"T","e","s","t">>)
BaseClass == Class(<<"seisflows", "workflow", <<"b","a","s","e">>>>, <<"B","a","s","e">>)
ObjectClass == Class(<<"builtins">>, <<"o","b","j","e","c","t">>)
Classes == {TestClass, BaseClass, ObjectClass}

\* cls.mro()
mro(cls) == IF cls = TestClass THEN <<TestClass, BaseClass, ObjectClass>>
            ELSE IF cls = BaseClass THEN <<BaseClass, ObjectClass>>
            ELSE <<ObjectClass>>

\* The names of the methods pickled (test.py:59, 71).
FuncNames == {"check", "main"}
\* cls.__dict__ for every class, as the sets of function names defined;
\* object defines none of these names.
ClassDicts == {d \in [Classes -> SUBSET FuncNames] : d[ObjectClass] = {}}
\* The dictionaries of the code as test.py has it: Test defines both names.
SourceDicts == [c \in Classes |-> IF c = TestClass THEN FuncNames ELSE {}]

\* type(obj) of a component instance.
TypeOf(obj) == Class(obj.dotted, obj.classname)
\* The instances whose methods are pickled.
Objects == {Instance(c, n) : c \in {TestClass, BaseClass}, n \in 0..MaxCount}

\* A function defined in the dictionary of the class owner.
Function(name, owner) == [kind |-> "function", name |-> name, owner |-> owner]
\* A bound method object of Python 3 (the module uses f-strings, so it runs
\* on Python 3 only): its attributes are __func__ and __self__.
Method(func, obj) ==
    [kind |-> "method",
     attrs |-> [a \in {"__func__", "__self__"} |-> IF a = "__func__" THEN func ELSE obj]]

\* The places in mro(cls) whose class defines func_name.
Definers(func_name, cls, dicts) ==
    {i \in DOMAIN mro(cls) : func_name \in dicts[mro(cls)[i]]}
FirstDefiner(func_name, cls, dicts) ==
    mro(cls)[CHOOSE i \in Definers(func_name, cls, dicts) :
                 \A j \in Definers(func_name, cls, dicts) : i <= j]
\* obj.func_name for a name some class of type(obj) defines: the bound method.
BoundMethod(obj, func_name, dicts) ==
    Method(Function(func_name, FirstDefiner(func_name, TypeOf(obj), dicts)), obj)

\* How a call of the pair ends.
Raised(e) == [raised |-> e, ret |-> NoReturn]
Returned(v) == [raised |-> "none", ret |-> v]
\* The value a reduction function returns: the constructor and its arguments.
Reduce(callable, args) == [kind |-> "reduce", callable |-> callable, args |-> args]

\* _pickle_method(method), config.py:267-287: each attribute read raises
\* AttributeError when the object has no such attribute.
_pickle_method(method) ==
    IF "im_func" \notin DOMAIN method.attrs THEN Raised("AttributeError")
    ELSE IF "im_self" \notin DOMAIN method.attrs THEN Raised("AttributeError")
    ELSE IF "im_class" \notin DOMAIN method.attrs THEN Raised("AttributeError")
    ELSE Returned(Reduce("_unpickle_method",
                         <<method.attrs["im_func"].name, method.attrs["im_self"],
                           method.attrs["im_class"]>>))

\* The mutant of _unpickle_method: a name no class defines gives a method
\* bound to the function of that name in the last class looked at.
_unpickle_method_binds_missing(func_name, obj, cls, dicts) ==
    IF Definers(func_name, cls, dicts) = {}
    THEN Returned(Method(Function(func_name, mro(cls)[Len(mro(cls))]), obj))
    ELSE Returned(Method(Function(func_name, FirstDefiner(func_name, cls, dicts)), obj))

\* _unpickle_method(func_name, obj, cls), config.py:290-301: the loop leaves
\* func unassigned when no class of cls.mro() defines func_name, and the
\* return statement then raises UnboundLocalError.
_unpickle_method(func_name, obj, cls, dicts) ==
    IF Definers(func_name, cls, dicts) = {}
    THEN Raised("UnboundLocalError")
    ELSE Returned(Method(Function(func_name, FirstDefiner(func_name, cls, dicts)), obj))

(***************************************************************************)
(* The worker pool of the rotation calls, preprocess/noise.py:108-117 and  *)
(* 248-255.                                                                *)
(***************************************************************************)
\* The number of jobs a call submits and the workers of the pool
\* (unix.nproc()).
MaxJobs == 3
MaxWorkers == 2

Rotations == {"rotate_ne_traces_to_rt", "rotate_rt_adjsrcs_to_ne"}

\* The mutant of finished: a job that is running counts as finished.
finished_or_running(status) == status \in {"running", "done", "failed"}

\* A future is done when its job has returned or raised: what
\* shutdown(wait=True) and wait(futures) block for.
finished(status) == status \in {"done", "failed"}

(***************************************************************************)
(* The events of a process around the import of seisflows.config.          *)
(***************************************************************************)
\* The number of events of one process that are followed.
MaxLog == 7

(***************************************************************************)
(* The NoiseInversion workflow, workflow/noise_inversion.py.  The instance *)
(* is a record w: its kernels string, its force direction ("None" while    *)
(* unset), its task list, the task to run next, the iteration, the scratch *)
(* trace directories of the solver, the events of the task last run and    *)
(* the exception that task raised.                                         *)
(***************************************************************************)
\* The number of kernel names in a kernels argument, of iterations of the
\* task list, and of trial steps of one line search.
MaxKernels == 3
MaxIter == 2
MaxSteps == 2

ZZ == <<"Z", "Z">>
TT == <<"T", "T">>
RR == <<"R", "R">>

\* str.lower() on a tuple of characters.
lower(s) == [i \in DOMAIN s |-> LowerChar(s[i])]

\* ",".join(names).
RECURSIVE JoinComma(_)
JoinComma(names) ==
    IF names = <<>> THEN <<>>
    ELSE IF Len(names) = 1 THEN names[1]
    ELSE names[1] \o <<",">> \o JoinComma(Tail(names))

\* The kernels arguments: one to MaxKernels names, each one of the three
\* kernels, a name that is none of them or the empty name (as in "", "ZZ,"
\* or ",TT"), in any order, repeated or not, in upper or in lower case.
KernelArgs ==
    LET names == {ZZ, TT, RR, <<"Z", "T">>, <<>>}
        lists == UNION {[1..n -> names] : n \in 1..MaxKernels}
    IN  {JoinComma(l) : l \in lists} \cup {lower(JoinComma(l)) : l \in lists}

\* s.split(sep) for a separator of one character.
RECURSIVE split(_, _)
split(s, sep) ==
    IF \A i \in DOMAIN s : s[i] # sep THEN <<s>>
    ELSE LET k == CHOOSE i \in DOMAIN s :
                      s[i] = sep /\ \A j \in 1..(i - 1) : s[j] # sep
         IN  <<SubSeq(s, 1, k - 1)>> \o split(SubSeq(s, k + 1, Len(s)), sep)

\* `sub in s` on strings: sub occurs in s as a substring.
contains(s, sub) ==
    \E i \in 0..(Len(s) - Len(sub)) : SubSeq(s, i + 1, i + Len(sub)) = sub

\* bool(s) of a string: the empty string only is false.
Truthy(s) == Len(s) > 0

\* The mutant of check: an empty item between the commas is passed over.
check_skips_empty_items(kernels) ==
    {split(kernels, ",")[i] : i \in DOMAIN split(kernels, ",")} \subseteq {ZZ, TT, RR, <<>>}

\* The kernels assertion of check, noise_inversion.py:93-95.
check(kernels) ==
    {split(kernels, ",")[i] : i \in DOMAIN split(kernels, ",")} \subseteq {ZZ, TT, RR}

\* The mutant of task_list: generate_tt_rr_kernels is appended once for TT
\* and once for RR.
task_list_one_per_kernel(kernels) ==
    (IF contains(kernels, ZZ) THEN <<"generate_zz_kernels">> ELSE <<>>)
    \o (IF contains(kernels, TT) THEN <<"generate_tt_rr_kernels">> ELSE <<>>)
    \o (IF contains(kernels, RR) THEN <<"generate_tt_rr_kernels">> ELSE <<>>)
    \o <<"postprocess_event_kernels", "evaluate_gradient_from_kernels",
         "initialize_line_search", "perform_line_search", "finalize_iteration">>

\* NoiseInversion.task_list, noise_inversion.py:121-139: the tests are
\* substring tests on the kernels string.
task_list(kernels) ==
    (IF contains(kernels, ZZ) THEN <<"generate_zz_kernels">> ELSE <<>>)
    \o (IF contains(kernels, TT) \/ contains(kernels, RR)
        THEN <<"generate_tt_rr_kernels">> ELSE <<>>)
    \o <<"postprocess_event_kernels", "evaluate_gradient_from_kernels",
         "initialize_line_search", "perform_line_search", "finalize_iteration">>

\* NoiseInversion.__init__, noise_inversion.py:73-82, with the task list
\* as the controller reads it: kernels is uppercased, the force is unset.
\* No scratch directory of the solver holds traces.
NewInstance(kernels) ==
    [made |-> TRUE, kernels |-> upper(kernels), force |-> "None",
     tasks |-> task_list(upper(kernels)), pc |-> 1, iteration |-> 1,
     traces |-> [t \in {<<"_", "e">>, <<"_", "n">>} |-> "none"],
     log |-> <<>>, raised |-> "none"]

\* syn_path(tag), noise_inversion.py:141-157: tag has no default, a call
\* without it raises TypeError.  The path is kept as its parts.
syn_path(tag) ==
    IF tag = None THEN Raised("TypeError")
    ELSE Returned(<<"traces", "syn", tag[1]>>)

\* What a method of the workflow leaves in the log: the method, the force
\* and the scratch traces it found, the data directories it read, and how
\* it ended.
Event(op, w, dirs, outcome) ==
    [op |-> op, force |-> w.force, traces |-> w.traces, dirs |-> dirs,
     outcome |-> outcome]

Logs(w, op, dirs, outcome) ==
    [w EXCEPT !.log = Append(@, Event(op, w, dirs, outcome))]

Fails(w, op, e) ==
    [w EXCEPT !.log = Append(@, Event(op, w, {}, e)), !.raised = e]

\* The directories of observed data of one source, noise_inversion.py:166-168.
DataDirs == {ZZ, RR, TT}

\* glob matching of a directory name against a pattern of character
\* classes, one per character: "ZZ" is <<{"Z"}, {"Z"}>>, "[RT][RT]" is
\* <<{"R","T"}, {"R","T"}>>.
fnmatch(name, pattern) ==
    /\ Len(name) = Len(pattern)
    /\ \A i \in DOMAIN name : name[i] \in pattern[i]

\* prepare_data_for_solver, noise_inversion.py:186-199: the second test is
\* on the string "TT" itself.  A force that is no key of the dictionary
\* raises KeyError.
prepare_data_for_solver(w) ==
    LET wc == (IF contains(w.kernels, RR) THEN <<"R">> ELSE <<>>)
              \o (IF Truthy(TT) THEN <<"T">> ELSE <<>>)
        class == {wc[i] : i \in DOMAIN wc}
        dir_ == [Z |-> <<{"Z"}, {"Z"}>>, N |-> <<class, class>>, E |-> <<class, class>>]
    IN  IF w.force \notin DOMAIN dir_
        THEN Fails(w, "prepare_data_for_solver", "KeyError")
        ELSE Logs(w, "prepare_data_for_solver",
                  {d \in DataDirs : fnmatch(d, dir_[w.force])}, "copied")

\* run_forward_simulations, noise_inversion.py:217-242: the assertion on
\* the force, then the simulation, which leaves its traces in save_traces
\* when that is a directory.
run_forward_simulations(w) ==
    IF w.force = "None" THEN Fails(w, "run_forward_simulations", "AssertionError")
    ELSE LET save_traces == IF w.force = "Z" THEN None
                            ELSE Some(syn_path(Some(<<"_", LowerChar(w.force)>>)).ret)
             ran == Logs(w, "run_forward_simulations", {}, "ran")
         IN  IF save_traces = None THEN ran
             ELSE [ran EXCEPT !.traces[save_traces[1][3]] = "new"]

\* evaluate_objective_function, noise_inversion.py:259-284: with force Z
\* the misfit of the parent class; otherwise nothing unless both scratch
\* directories hold traces, and then line 273 calls syn_path without its
\* argument and raises.
evaluate_objective_function(w) ==
    IF w.force = "Z" THEN Logs(w, "evaluate_objective_function", {}, "misfit")
    ELSE LET n_traces == w.traces[syn_path(Some(<<"_", "n">>)).ret[3]] # "none"
             e_traces == w.traces[syn_path(Some(<<"_", "e">>)).ret[3]] # "none"
         IN  IF ~n_traces \/ ~e_traces
             THEN Logs(w, "evaluate_objective_function", {}, "skipped")
             ELSE IF syn_path(None).raised # "none"
             THEN Fails(w, "evaluate_objective_function", syn_path(None).raised)
             ELSE Logs(w, "evaluate_objective_function", {}, "rotated")

\* evaluate_initial_misfit of the parent class: the three methods the
\* docstrings at noise_inversion.py:170 and 251 place in it, in the order
\* data, simulation, misfit; a method that raises ends it.
evaluate_initial_misfit(w) ==
    LET a == prepare_data_for_solver(w)
        b == IF a.raised # "none" THEN a ELSE run_forward_simulations(a)
    IN  IF b.raised # "none" THEN b ELSE evaluate_objective_function(b)

\* The mutant of generate_zz_kernels: the force is left as it was.
generate_zz_kernels_keeps_force(w) ==
    LET a == evaluate_initial_misfit(w)
    IN  IF a.raised # "none" THEN a ELSE Logs(a, "run_adjoint_simulations", {}, "ran")

\* generate_zz_kernels, noise_inversion.py:293-299.
generate_zz_kernels(w) ==
    LET a == evaluate_initial_misfit([w EXCEPT !.force = "Z"])
    IN  IF a.raised # "none" THEN a ELSE Logs(a, "run_adjoint_simulations", {}, "ran")

\* generate_tt_rr_kernels, noise_inversion.py:336-341: the E pass, then the
\* N pass.  The traces that were there when the call began are marked old.
generate_tt_rr_kernels(w) ==
    LET began == [w EXCEPT !.traces = [t \in DOMAIN @ |->
                                          IF @[t] = "none" THEN "none" ELSE "old"]]
        e == evaluate_initial_misfit([began EXCEPT !.force = "E"])
    IN  IF e.raised # "none" THEN e
        ELSE evaluate_initial_misfit([e EXCEPT !.force = "N"])

\* The line search of the parent class: a simulation and a misfit for each
\* trial step, until a method raises.
RECURSIVE line_search(_, _)
line_search(w, steps) ==
    IF steps = 0 \/ w.raised # "none" THEN w
    ELSE LET a == run_forward_simulations(w)
         IN  line_search(IF a.raised # "none" THEN a ELSE evaluate_objective_function(a),
                         steps - 1)

\* perform_line_search, noise_inversion.py:345-348.
perform_line_search(w, steps) == line_search([w EXCEPT !.force = "Z"], steps)

\* The body of the task of that name; the tasks of the parent class that
\* run no simulation leave the instance as it is.
Task(name, w, steps) ==
    IF name = "generate_zz_kernels" THEN generate_zz_kernels(w)
    ELSE IF name = "generate_tt_rr_kernels" THEN generate_tt_rr_kernels(w)
    ELSE IF name = "perform_line_search" THEN perform_line_search(w, steps)
    ELSE Logs(w, name, {}, "ran")

(***************************************************************************)
(* Fortran binary files, plugins/solver_io/fortran_binary.py.  A file is   *)
(* a sequence of words of four bytes; a word is the pair of its two halves *)
(* of sixteen bits, the high one first.  The values written are integers.  *)
(***************************************************************************)
\* The number of values of a sequence that is written.
MaxLen == 3

\* The values: small ones, the largest integer up to which every integer is
\* a single precision number, and its successor, which is not one.
Values == {-1, 0, 1, 16777216, 16777217}
Vectors == UNION {[1..n -> Values] : n \in 0..MaxLen}

\* The word of n as dtype int32 (two's complement).
int32(n) == <<(n \div 65536) % 65536, n % 65536>>
\* The integer a word holds when read as int32.
as_int32(w) == IF w[1] < 32768 THEN w[1] * 65536 + w[2]
               ELSE (w[1] - 65536) * 65536 + w[2]

RECURSIVE ilog2(_)
ilog2(a) == IF a < 2 THEN 0 ELSE 1 + ilog2(a \div 2)

\* The word of the integer x as dtype float32, for a magnitude below 2^25:
\* the magnitude is rounded to 24 significant bits, to the even neighbour
\* when it lies halfway; then sign, biased exponent and fraction.
float32(x) ==
    IF x = 0 THEN <<0, 0>>
    ELSE LET mag == IF x < 0 THEN -x ELSE x
             a == IF mag <= 16777216 \/ mag % 2 = 0 THEN mag
                  ELSE IF ((mag - 1) \div 2) % 2 = 0 THEN mag - 1 ELSE mag + 1
             e == ilog2(a)
             m == IF e <= 23 THEN (a - 2^e) * 2^(23 - e) ELSE (a - 2^e) \div 2^(e - 23)
         IN  <<(IF x < 0 THEN 32768 ELSE 0) + (127 + e) * 128 + (m \div 65536),
               m % 65536>>

\* os.path.getsize(filename), in bytes.
getsize(file) == 4 * Len(file)

\* np.fromfile(file, dtype) from the position reached, in words, to the end.
fromfile(file, position) == SubSeq(file, position + 1, Len(file))

\* The mutant of _read: the trailing record marker is kept as a value.
_read_keeps_trailer(file) ==
    LET nbytes == getsize(file)
        n == as_int32(fromfile(file, 0)[1])
    IN  IF n = nbytes - 8 THEN fromfile(file, 1)
        ELSE fromfile(file, 0)

\* _read(filename), fortran_binary.py:38-55, on the words of the file.
_read(file) ==
    LET nbytes == getsize(file)
        n == as_int32(fromfile(file, 0)[1])
    IN  IF n = nbytes - 8
        THEN LET data == fromfile(file, 1)
             IN  SubSeq(data, 1, Len(data) - 1)
        ELSE fromfile(file, 0)

\* _write(v, filename), fortran_binary.py:58-69: the words of the file.
_write(v) ==
    LET n == int32(4 * Len(v))
        w == [i \in DOMAIN v |-> float32(v[i])]
    IN  <<n>> \o w \o <<n>>

(***************************************************************************)
(* Model slices, fortran_binary.py:10-35.  A file name is the tuple of its *)
(* characters; files maps the names of the files there are to their words, *)
(* dirs is the directories there are.                                      *)
(***************************************************************************)
\* The directories, processor numbers, parameter lists and data of the
\* calls.
SlicePaths == {<<"m">>, <<"n">>}
Procs == {0, 12}
SliceKeys == {<<"v", "p">>, <<"v", "s">>}
SliceParameters == {<<<<"v", "p">>>>, <<<<"v", "s">>>>, <<<<"v", "p">>, <<"v", "s">>>>}
SliceData == {<<1>>, <<-1, 0>>}

\* The decimal digits of a natural number, and format(n, "06d").
RECURSIVE Decimal(_)
Decimal(n) ==
    LET digit == <<"0", "1", "2", "3", "4", "5", "6", "7", "8", "9">>[(n % 10) + 1]
    IN  IF n < 10 THEN <<digit>> ELSE Decimal(n \div 10) \o <<digit>>
Format06d(n) ==
    IF Len(Decimal(n)) >= 6 THEN Decimal(n)
    ELSE [i \in 1..(6 - Len(Decimal(n))) |-> "0"] \o Decimal(n)

\* os.path.join(a, b) for a relative b, and os.path.dirname(name).
join(a, b) == IF a = <<>> THEN b
              ELSE IF a[Len(a)] = "/" THEN a \o b ELSE a \o <<"/">> \o b
dirname(name) ==
    IF \A i \in DOMAIN name : name[i] # "/" THEN <<>>
    ELSE LET k == CHOOSE i \in DOMAIN name :
                      name[i] = "/" /\ \A j \in (i + 1)..Len(name) : name[j] # "/"
         IN  SubSeq(name, 1, k - 1)

\* f"{path}/proc{iproc:06d}_{key}.bin", fortran_binary.py:16.
read_slice_filename(path, iproc, key) ==
    path \o <<"/", "p", "r", "o", "c">> \o Format06d(iproc) \o <<"_">> \o key
         \o <<".", "b", "i", "n">>

\* "{path}/proc{iproc:06d}_{key}.bin", fortran_binary.py:26: the string has
\* no f prefix and is the file name as it stands.
write_slice_filename(path, iproc, key) ==
    <<"{", "p", "a", "t", "h", "}", "/", "p", "r", "o", "c",
      "{", "i", "p", "r", "o", "c", ":", "0", "6", "d", "}", "_",
      "{", "k", "e", "y", "}", ".", "b", "i", "n">>

\* f"proc{iproc:06d}_{parameter}.bin", fortran_binary.py:34.
copy_slice_filename(iproc, parameter) ==
    <<"p", "r", "o", "c">> \o Format06d(iproc) \o <<"_">> \o parameter
         \o <<".", "b", "i", "n">>

\* The outcome of a call on the files: the files after it, what it raised
\* and what it returned.
Sliced(files, raised, ret) == [files |-> files, raised |-> raised, ret |-> ret]

\* read_slice(path, parameters, iproc), fortran_binary.py:14-18; _read
\* raises FileNotFoundError (getsize) for a file that is not there.
RECURSIVE read_slice(_, _, _, _, _, _)
read_slice(files, path, parameters, iproc, i, vals) ==
    IF i > Len(parameters) THEN Sliced(files, "none", vals)
    ELSE LET filename == read_slice_filename(path, iproc, parameters[i])
         IN  IF filename \notin DOMAIN files
             THEN Sliced(files, "FileNotFoundError", <<>>)
             ELSE read_slice(files, path, parameters, iproc, i + 1,
                             Append(vals, _read(files[filename])))

\* write_slice(data, path, parameters, iproc), fortran_binary.py:25-27;
\* open(filename, 'wb') raises FileNotFoundError when the directory of the
\* name is not there.
RECURSIVE write_slice(_, _, _, _, _, _, _)
write_slice(files, dirs, data, path, parameters, iproc, i) ==
    IF i > Len(parameters) THEN Sliced(files, "none", <<>>)
    ELSE LET filename == write_slice_filename(path, iproc, parameters[i])
         IN  IF dirname(filename) \notin dirs
             THEN Sliced(files, "FileNotFoundError", <<>>)
             ELSE write_slice(Write(files, filename, _write(data)), dirs, data, path,
                              parameters, iproc, i + 1)

\* copy_slice(src, dst, iproc, parameter), fortran_binary.py:34-35.
copy_slice(files, dirs, src, dst, iproc, parameter) ==
    LET filename == copy_slice_filename(iproc, parameter)
    IN  IF join(src, filename) \notin DOMAIN files \/ dst \notin dirs
        THEN Sliced(files, "FileNotFoundError", <<>>)
        ELSE Sliced(Write(files, join(dst, filename), files[join(src, filename)]),
                    "none", <<>>)

\* No slice call has been made.
NoSlice == [op |-> "none", path |-> <<>>, parameters |-> <<>>, iproc |-> 0,
            raised |-> "none", ret |-> <<>>, wrote |-> None, copied |-> FALSE]

(***************************************************************************)
(* Test.test_optimize, workflow/test.py:158-206.  The run is a record: its *)
(* position, the iteration of the for loop, the calls of the iteration in  *)
(* their order and the number of line-search steps of the iteration.       *)
(***************************************************************************)
\* The end of range(1, 200), and the line-search steps of one iteration
\* that are followed.
RangeEnd == 200
MaxTrials == 3

\* What update_search may return.
Statuses == {-1, 0, 1, 2}

\* A call of the run: status is what update_search returned, retry what
\* retry_status returned (0 and FALSE for the other calls).
Called(name, status, retry) == [call |-> name, status |-> status, retry |-> retry]

\* The mutant of search_step: the line search is also finalized on status
\* zero.
search_step_finalizes_on_zero(s, status, retry) ==
    LET tried == s.log \o <<Called("initialize_search", 0, FALSE),
                            Called("evaluate_function", 0, FALSE),
                            Called("update_search", status, FALSE)>>
        asked == Append(tried, Called("retry_status", 0, retry))
    IN  IF status >= 0
        THEN [s EXCEPT !.log = Append(tried, Called("finalize_search", 0, FALSE)),
                       !.pc = IF s.iteration + 1 < RangeEnd THEN "for" ELSE "returned",
                       !.iteration = @ + 1]
        ELSE IF retry
        THEN [s EXCEPT !.log = Append(asked, Called("restart", 0, FALSE)),
                       !.trials = @ + 1]
        ELSE [s EXCEPT !.log = Append(asked, Called("exit", 0, FALSE)), !.pc = "exited"]

\* One pass of the body of `while True`, test.py:194-206, with the status
\* update_search returns and the answer of retry_status.
search_step(s, status, retry) ==
    LET tried == s.log \o <<Called("initialize_search", 0, FALSE),
                            Called("evaluate_function", 0, FALSE),
                            Called("update_search", status, FALSE)>>
        asked == Append(tried, Called("retry_status", 0, retry))
    IN  IF status > 0
        THEN [s EXCEPT !.log = Append(tried, Called("finalize_search", 0, FALSE)),
                       !.pc = IF s.iteration + 1 < RangeEnd THEN "for" ELSE "returned",
                       !.iteration = @ + 1]
        ELSE IF status = 0
        THEN [s EXCEPT !.log = tried, !.trials = @ + 1]
        ELSE IF retry
        THEN [s EXCEPT !.log = Append(asked, Called("restart", 0, FALSE)),
                       !.trials = @ + 1]
        ELSE [s EXCEPT !.log = Append(asked, Called("exit", 0, FALSE)), !.pc = "exited"]

\* test_optimize has not been called.
NoSearch == [pc |-> "idle", iteration |-> 1, log |-> <<>>, trials |-> 0]

(***************************************************************************)
(* The values of the remaining variables before any call.                  *)
(***************************************************************************)
\* No method has been pickled or unpickled.
IdlePickling == [dicts |-> SourceDicts, op |-> "none", func_name |-> "",
                 obj |-> Null, cls |-> ObjectClass, method |-> NoReturn,
                 raised |-> "none", ret |-> NoReturn]
\* seisflows.config has been imported: its body has run once.
ImportedAdapter == [imported |-> TRUE, log |-> <<"import", "register">>]
\* No rotation call is under way.
IdlePool == [pc |-> "idle", fn |-> "", todo |-> 0, jobs |-> <<>>, raised |-> "none"]

\* No workflow has been constructed.
NoWorkflow == [made |-> FALSE, kernels |-> <<>>, force |-> "None", tasks |-> <<>>,
               pc |-> 1, iteration |-> 1,
               traces |-> [t \in {<<"_", "e">>, <<"_", "n">>} |-> "none"],
               log |-> <<>>, raised |-> "none"]
\* No Fortran binary file has been written.
NoFile == [written |-> FALSE, by |-> "", v |-> <<>>, file |-> <<>>, read |-> FALSE,
           data |-> <<>>, files |-> EmptyDir, dirs |-> SlicePaths, slice |-> NoSlice]

\* No call of custom_import with explicit arguments has been made.
NoCall == [made |-> FALSE, name |-> None, module |-> None, classname |-> None,
           ret |-> NoReturn, exit |-> FALSE, events |-> <<>>, cls |-> None,
           used |-> None, failure |-> "none"]

(***************************************************************************)
(* The state of a new process: nothing of a session is in sys.modules.     *)
(***************************************************************************)
Init ==
    /\ sys_modules = EmptyDir
    /\ disk = EmptyDir
    /\ alive = TRUE
    /\ lastOp = Op("start", "", "", "none", NoReturn, <<>>, FALSE)
    /\ saved = [d \in Dirs |-> None]
    /\ stale = [d \in Dirs |-> {}]
    /\ call = NoCall
    /\ pickling = IdlePickling
    /\ adapter = ImportedAdapter
    /\ pool = IdlePool
    /\ inversion = NoWorkflow
    /\ fortran = NoFile
    /\ search = NoSearch

\* A new process started on the same file system (the earlier one has ended
\* or was killed): memory is empty, the disk is what it was.
Restart ==
    /\ sys_modules' = EmptyDir
    /\ alive' = TRUE
    /\ lastOp' = Op("start", "", "", "none", NoReturn, <<>>, FALSE)
    /\ UNCHANGED <<disk, saved, stale, otherVars>>

\* Resolving every role in the order of NAMES and placing the instances in
\* sys.modules; a sys.exit in custom_import ends the loop and the process.
RECURSIVE resolve_all(_, _)
resolve_all(mods, i) ==
    IF i > Len(NAMES) THEN [mods |-> mods, exit |-> FALSE]
    ELSE LET r == custom_import(Some(NAMES[i]), None, None, mods)
         IN  IF r.exit THEN [mods |-> mods, exit |-> TRUE]
             ELSE resolve_all((ModKey(NAMES[i]) :> Instantiate(r.ret)) @@ mods, i + 1)

\* Assembling a session: the supplied configuration (when one is supplied;
\* otherwise the mappings in memory are used) is placed in sys.modules and
\* every role is resolved from it.
Assemble(supply) ==
    /\ alive
    /\ LET configured ==
               IF supply = None THEN sys_modules
               ELSE (ModKey("parameters") :> Dict(supply[1].parameters)) @@
                    (ModKey("paths") :> Dict(supply[1].paths)) @@ sys_modules
           r == resolve_all(configured, 1)
       IN  /\ sys_modules' = r.mods
           /\ alive' = ~r.exit
           /\ lastOp' = Op("assemble", "", "", IF r.exit THEN "SystemExit" ELSE "none",
                           NoReturn, <<>>, lastOp.op = "flush" /\ lastOp.flag)
    /\ UNCHANGED <<disk, saved, stale, otherVars>>

\* One call custom_import(name) without an implementation name, as a module
\* of the package makes it.
Resolve(name) ==
    /\ alive
    /\ LET r == custom_import(Some(name), None, None, sys_modules)
       IN  /\ alive' = ~r.exit
           /\ lastOp' = Op("custom_import", "", name, IF r.exit THEN "SystemExit" ELSE "none",
                           r.ret, r.events,
                           \* the call is the first after a flush
                           lastOp.op = "flush")
    /\ UNCHANGED <<sys_modules, disk, saved, stale, otherVars>>

\* The mutant of RunTask: the session is saved after the task.
RunTask_autosaves(name, fails) ==
    /\ alive
    /\ ModKey(name) \in DOMAIN sys_modules
    /\ sys_modules[ModKey(name)].kind = "inst"
    /\ sys_modules[ModKey(name)].n < MaxCount
    /\ sys_modules' = [sys_modules EXCEPT ![ModKey(name)].n = @ + 1]
    /\ lastOp' = Op("task", "", name, IF fails THEN "Exception" ELSE "none",
                    NoReturn, <<>>, FALSE)
    /\ disk' = [d \in DOMAIN disk |-> save_files(disk[d], sys_modules').files]
    /\ UNCHANGED <<alive, saved, stale, otherVars>>

\* A task of the workflow runs (test.py:83-84) and advances the state of the
\* instance of one role; it returns or raises.
RunTask(name, fails) ==
    /\ alive
    /\ ModKey(name) \in DOMAIN sys_modules
    /\ sys_modules[ModKey(name)].kind = "inst"
    /\ sys_modules[ModKey(name)].n < MaxCount
    /\ sys_modules' = [sys_modules EXCEPT ![ModKey(name)].n = @ + 1]
    /\ lastOp' = Op("task", "", name, IF fails THEN "Exception" ELSE "none",
                    NoReturn, <<>>, FALSE)
    /\ UNCHANGED <<disk, alive, saved, stale, otherVars>>

\* save(path), config.py:64-86
save(path) ==
    /\ alive
    /\ LET before == IF path \in DOMAIN disk THEN disk[path] ELSE EmptyDir   \* mkdir
           r == save_files(before, sys_modules)
           complete == CheckpointFiles \subseteq DOMAIN before
                       /\ load_files(EmptyDir, before).raised = "none"
       IN  /\ disk' = (path :> r.files) @@ disk
           /\ lastOp' = Op("save", path, "", r.raised, NoReturn, r.written,
                           \* an earlier, different session was stored here
                           complete /\ r.raised = "none"
                           /\ ~SessionEq(load_files(EmptyDir, before).mods, sys_modules))
           /\ saved' = [saved EXCEPT ![path] =
                            IF r.raised = "none" THEN Some(sys_modules) ELSE None]
           /\ stale' = [stale EXCEPT ![path] =
                            DOMAIN before \ {r.written[i] : i \in DOMAIN r.written}]
    /\ UNCHANGED <<sys_modules, alive, otherVars>>

\* load(path), config.py:89-107
load(path) ==
    /\ alive
    /\ LET r == IF path \in DOMAIN disk THEN load_files(sys_modules, disk[path])
                ELSE Loaded(sys_modules, "FileNotFoundError")
       IN  /\ sys_modules' = r.mods
           /\ lastOp' = Op("load", path, "", r.raised, NoReturn, r.opened,
                           \* memory differed from the session the directory holds
                           r.raised = "none" /\ ~SessionEq(sys_modules, r.mods))
    /\ UNCHANGED <<disk, alive, saved, stale, otherVars>>

\* The mutant of flush: the checkpoints on disk are removed with the session.
flush_removes_checkpoints ==
    /\ alive
    /\ sys_modules' = flushed(sys_modules)
    /\ lastOp' = Op("flush", "", "", "none", NoReturn, <<>>,
                    \E k \in DOMAIN sys_modules \cap RoleKeys : sys_modules[k].kind = "inst")
    /\ disk' = [d \in DOMAIN disk |-> EmptyDir]
    /\ UNCHANGED <<alive, saved, stale, otherVars>>

\* flush(), config.py:110-122
flush ==
    /\ alive
    /\ sys_modules' = flushed(sys_modules)
    /\ lastOp' = Op("flush", "", "", "none", NoReturn, <<>>,
                    \* some role held an instance
                    \E k \in DOMAIN sys_modules \cap RoleKeys : sys_modules[k].kind = "inst")
    /\ UNCHANGED <<disk, alive, saved, stale, otherVars>>

\* A read of a role entry, sys.modules["seisflows_<name>"], as the modules of
\* the package make it when they are loaded (test.py:22-26).
Get(name) ==
    /\ alive
    /\ lastOp' = IF ModKey(name) \in DOMAIN sys_modules
                 THEN Op("get", "", name, "none", sys_modules[ModKey(name)], <<>>,
                         lastOp.op = "flush")
                 ELSE Op("get", "", name, "KeyError", NoReturn, <<>>, lastOp.op = "flush")
    /\ UNCHANGED <<sys_modules, disk, alive, saved, stale, otherVars>>

\* The session and its checkpoints: assembly, tasks, save, load, flush.
Next ==
    \/ Restart
    \/ \E s \in Sessions : Assemble(Some(s))
    \/ Assemble(None)
    \/ \E n \in NameSet, fails \in BOOLEAN : RunTask(n, fails)
    \/ \E d \in Dirs : save(d)
    \/ \E d \in Dirs : load(d)
    \/ flush

Spec == Init /\ [][Next]_vars

\* The registry in memory and the calls that read it: assembly, tasks,
\* flush, custom_import and the role lookups of the package's modules.
NextRegistry ==
    \/ Restart
    \/ \E s \in Sessions : Assemble(Some(s))
    \/ Assemble(None)
    \/ \E n \in NameSet, fails \in BOOLEAN : RunTask(n, fails)
    \/ flush
    \/ \E n \in NameSet : Resolve(n)
    \/ \E n \in NameSet : Get(n)

SpecRegistry == Init /\ [][NextRegistry]_vars

(***************************************************************************)
(* The resolver called with explicit arguments: any role name (or none),   *)
(* any implementation name of a bounded length, with or without a class    *)
(* name.                                                                   *)
(***************************************************************************)
\* The characters of the implementation names tried, and their length.
NameAlphabet == {"a", "b", "_", "-"}
MaxNameLen == 3
Strings(n) == UNION {[1..k -> NameAlphabet] : k \in 1..n}

\* The role names a caller passes: the six of NAMES and one that is not.
RoleArgs == {None} \cup {Some(n) : n \in NameSet \cup {"plugins"}}
\* The implementation names a caller passes.
ModuleArgs == {None} \cup {Some(m) : m \in Strings(MaxNameLen)}
                     \cup {Some(m.dotted[3]) : m \in Package}
                     \cup {Some(<<"A">>), Some(<<"A", "_", "B">>), Some(<<"A", "-", "B">>),
                           Some(<<"A", "b">>)}
\* The class names a caller passes.
ClassArgs == {None, Some(<<"B","a","s","e">>), Some(<<"g","l","o","b">>)}

\* One call custom_import(name, module, classname).
Import(name, module, classname) ==
    /\ alive
    /\ ~call.made
    /\ LET r == custom_import(name, module, classname, sys_modules)
       IN  /\ alive' = ~r.exit
           /\ call' = [made |-> TRUE, name |-> name, module |-> module,
                       classname |-> classname, ret |-> r.ret, exit |-> r.exit,
                       events |-> r.events,
                       cls |-> IF "cls" \in DOMAIN r THEN Some(r.cls) ELSE None,
                       used |-> None, failure |-> "none"]
           /\ lastOp' = Op("custom_import", "", IF name = None THEN "" ELSE name[1],
                           IF r.exit THEN "SystemExit" ELSE "none", r.ret, r.events, FALSE)
    /\ UNCHANGED <<sys_modules, disk, saved, stale, pickling, adapter, pool,
                 inversion, fortran, search>>

\* The first use of what the call returned: the caller reads the capability
\* of the role from it, and the read raises AttributeError when it is not
\* there.
Use ==
    /\ alive
    /\ call.made
    /\ call.ret.kind = "class"
    /\ call.used = None
    /\ \E found \in Exposes(call.ret.classname, Required(call.name[1])) :
           call' = [call EXCEPT !.used = Some(Required(call.name[1])),
                                !.failure = IF found THEN "none" ELSE "AttributeError"]
    /\ UNCHANGED <<sys_modules, disk, alive, lastOp, saved, stale, pickling, adapter, pool,
                   inversion, fortran, search>>

\* The caller is done with what the call returned.
EndCall ==
    /\ alive
    /\ call.made
    /\ call' = NoCall
    /\ UNCHANGED <<sys_modules, disk, alive, lastOp, saved, stale, pickling, adapter, pool,
                 inversion, fortran, search>>

NextResolver ==
    \/ Restart
    \/ \E s \in Sessions : Assemble(Some(s))
    \/ \E name \in RoleArgs, module \in ModuleArgs, classname \in ClassArgs :
           Import(name, module, classname)
    \/ Use
    \/ EndCall

SpecResolver == Init /\ [][NextResolver]_vars

(***************************************************************************)
(* Pickling and unpickling a bound method.                                 *)
(***************************************************************************)
\* Another process, in which the code of the classes installed is d.
Redefine(d) ==
    /\ d # pickling.dicts
    /\ pickling' = [IdlePickling EXCEPT !.dicts = d]
    /\ UNCHANGED <<sys_modules, disk, alive, lastOp, saved, stale, call, adapter, pool,
                 inversion, fortran, search>>

\* pickle meets the bound method obj.func_name and calls the function
\* registered for types.MethodType (config.py:304).
PickleMethod(func_name, obj) ==
    /\ Definers(func_name, TypeOf(obj), pickling.dicts) # {}
    /\ LET method == BoundMethod(obj, func_name, pickling.dicts)
           r == _pickle_method(method)
       IN  pickling' = [dicts |-> pickling.dicts, op |-> "pickle", func_name |-> func_name,
                        obj |-> obj, cls |-> TypeOf(obj), method |-> method,
                        raised |-> r.raised, ret |-> r.ret]
    /\ UNCHANGED <<sys_modules, disk, alive, lastOp, saved, stale, call, adapter, pool,
                 inversion, fortran, search>>

\* pickle rebuilds a method from the triple (func_name, obj, cls).
UnpickleMethod(func_name, obj, cls) ==
    /\ \E i \in DOMAIN mro(TypeOf(obj)) : mro(TypeOf(obj))[i] = cls
    /\ LET r == _unpickle_method(func_name, obj, cls, pickling.dicts)
       IN  pickling' = [dicts |-> pickling.dicts, op |-> "unpickle", func_name |-> func_name,
                        obj |-> obj, cls |-> cls, method |-> NoReturn,
                        raised |-> r.raised, ret |-> r.ret]
    /\ UNCHANGED <<sys_modules, disk, alive, lastOp, saved, stale, call, adapter, pool,
                 inversion, fortran, search>>

NextPickling ==
    \/ \E d \in ClassDicts : Redefine(d)
    \/ \E f \in FuncNames, o \in Objects : PickleMethod(f, o)
    \/ \E f \in FuncNames, o \in Objects, c \in {TestClass, BaseClass} : UnpickleMethod(f, o, c)

SpecPickling == Init /\ [][NextPickling]_vars

(***************************************************************************)
(* The import of seisflows.config in a process, and the pickle calls of    *)
(* the module.  The log holds the events of the process in order.          *)
(***************************************************************************)
Logged(events) == [adapter EXCEPT !.log = @ \o events]

\* A new interpreter: no module has been imported.
StartProcess ==
    /\ adapter' = [imported |-> FALSE, log |-> <<>>]
    /\ UNCHANGED <<sys_modules, disk, alive, lastOp, saved, stale, call, pickling, pool,
                 inversion, fortran, search>>

\* The mutant of ImportConfig: every import statement runs the module body.
ImportConfig_runs_body_again ==
    /\ Len(adapter.log) + 2 <= MaxLog
    /\ adapter' = [imported |-> TRUE, log |-> adapter.log \o <<"import", "register">>]
    /\ UNCHANGED <<sys_modules, disk, alive, lastOp, saved, stale, call, pickling, pool,
                 inversion, fortran, search>>

\* An import statement naming seisflows.config (test.py:16): the first one
\* of the process runs the module body, the last statement of which
\* (config.py:304) registers the pair; a later one finds the module loaded.
ImportConfig ==
    /\ Len(adapter.log) + 2 <= MaxLog
    /\ adapter' = IF adapter.imported THEN Logged(<<"import">>)
                  ELSE [imported |-> TRUE, log |-> adapter.log \o <<"import", "register">>]
    /\ UNCHANGED <<sys_modules, disk, alive, lastOp, saved, stale, call, pickling, pool,
                 inversion, fortran, search>>

\* pickle.dump of a role entry in save (config.py:83-86), a function of the
\* module: it can be called only once the module has been imported.
Dump ==
    /\ adapter.imported
    /\ Len(adapter.log) < MaxLog
    /\ adapter' = Logged(<<"dump">>)
    /\ UNCHANGED <<sys_modules, disk, alive, lastOp, saved, stale, call, pickling, pool,
                 inversion, fortran, search>>

\* pickle.load of a role entry in load (config.py:104-107).
Undump ==
    /\ adapter.imported
    /\ Len(adapter.log) < MaxLog
    /\ adapter' = Logged(<<"load">>)
    /\ UNCHANGED <<sys_modules, disk, alive, lastOp, saved, stale, call, pickling, pool,
                 inversion, fortran, search>>

NextAdapter ==
    \/ StartProcess
    \/ ImportConfig
    \/ Dump
    \/ Undump

SpecAdapter == Init /\ [][NextAdapter]_vars

(***************************************************************************)
(* A rotation call and its worker pool.  The caller submits the jobs       *)
(* inside the with block, leaves the block (shutdown(wait=True)), calls    *)
(* wait(futures) and returns; the workers run the jobs meanwhile.          *)
(***************************************************************************)
Running == {j \in DOMAIN pool.jobs : pool.jobs[j] = "running"}

\* The call of fn over n files; ok tells whether the assertions made before
\* the pool is created hold (noise.py:105-106, 230, 238).
CallRotate(fn, n, ok) ==
    /\ pool.pc = "idle"
    /\ pool' = IF ~ok \/ (fn = "rotate_rt_adjsrcs_to_ne" /\ n = 0)
               THEN [pc |-> "raised", fn |-> fn, todo |-> 0, jobs |-> <<>>,
                     raised |-> "AssertionError"]
               ELSE [pc |-> "submit", fn |-> fn, todo |-> n, jobs |-> <<>>,
                     raised |-> "none"]
    /\ UNCHANGED <<sys_modules, disk, alive, lastOp, saved, stale, call, pickling, adapter,
                 inversion, fortran, search>>

\* executor.submit(...) for the next file (noise.py:110-114, 250-253).
Submit ==
    /\ pool.pc = "submit"
    /\ pool.todo > 0
    /\ pool' = [pool EXCEPT !.todo = @ - 1, !.jobs = Append(@, "pending")]
    /\ UNCHANGED <<sys_modules, disk, alive, lastOp, saved, stale, call, pickling, adapter,
                 inversion, fortran, search>>

\* A free worker takes a submitted job.
StartJob(j) ==
    /\ pool.jobs[j] = "pending"
    /\ Cardinality(Running) < MaxWorkers
    /\ pool' = [pool EXCEPT !.jobs[j] = "running"]
    /\ UNCHANGED <<sys_modules, disk, alive, lastOp, saved, stale, call, pickling, adapter,
                 inversion, fortran, search>>

\* The job returns, or raises in its worker.
FinishJob(j, fails) ==
    /\ pool.jobs[j] = "running"
    /\ pool' = [pool EXCEPT !.jobs[j] = IF fails THEN "failed" ELSE "done"]
    /\ UNCHANGED <<sys_modules, disk, alive, lastOp, saved, stale, call, pickling, adapter,
                 inversion, fortran, search>>

\* The end of the with block: shutdown(wait=True) (noise.py:109-115, 249-253).
ExitExecutor ==
    /\ pool.pc = "submit"
    /\ pool.todo = 0
    /\ \A j \in DOMAIN pool.jobs : finished(pool.jobs[j])
    /\ pool' = [pool EXCEPT !.pc = "wait"]
    /\ UNCHANGED <<sys_modules, disk, alive, lastOp, saved, stale, call, pickling, adapter,
                 inversion, fortran, search>>

\* wait(futures) and the return of the call (noise.py:117, 255): the
\* futures are waited for, their results and exceptions are not read.
WaitFutures ==
    /\ pool.pc = "wait"
    /\ \A j \in DOMAIN pool.jobs : finished(pool.jobs[j])
    /\ pool' = [pool EXCEPT !.pc = "returned"]
    /\ UNCHANGED <<sys_modules, disk, alive, lastOp, saved, stale, call, pickling, adapter,
                 inversion, fortran, search>>

\* The caller goes on to its next call.
NextCall ==
    /\ pool.pc \in {"returned", "raised"}
    /\ pool' = IdlePool
    /\ UNCHANGED <<sys_modules, disk, alive, lastOp, saved, stale, call, pickling, adapter,
                 inversion, fortran, search>>

NextPool ==
    \/ \E fn \in Rotations, n \in 0..MaxJobs, ok \in BOOLEAN : CallRotate(fn, n, ok)
    \/ Submit
    \/ \E j \in DOMAIN pool.jobs : StartJob(j)
    \/ \E j \in DOMAIN pool.jobs, fails \in BOOLEAN : FinishJob(j, fails)
    \/ ExitExecutor
    \/ WaitFutures
    \/ NextCall

SpecPool == Init /\ [][NextPool]_vars

(***************************************************************************)
(* The NoiseInversion workflow under its controller: the tasks of the task *)
(* list run in order, the list is looped over for each iteration, and a    *)
(* task that raises ends the run.                                          *)
(***************************************************************************)
\* A workflow is constructed and checked; a kernels value that check
\* refuses ends the run before any task.
NewWorkflow(kernels) ==
    /\ ~inversion.made
    /\ inversion' = IF check(upper(kernels)) THEN NewInstance(kernels)
                    ELSE Fails(NewInstance(kernels), "check", "AssertionError")
    /\ UNCHANGED <<sys_modules, disk, alive, lastOp, saved, stale, call, pickling,
                   adapter, pool, fortran, search>>

\* The next task of the list runs to its end or to the exception it raises;
\* after the last task the list starts again for the next iteration.
RunNextTask(steps) ==
    /\ inversion.made
    /\ inversion.raised = "none"
    /\ inversion.pc <= Len(inversion.tasks)
    /\ LET w == Task(inversion.tasks[inversion.pc], [inversion EXCEPT !.log = <<>>], steps)
       IN  inversion' =
               IF w.raised # "none" THEN w
               ELSE IF w.pc < Len(w.tasks) THEN [w EXCEPT !.pc = @ + 1]
               ELSE IF w.iteration < MaxIter THEN [w EXCEPT !.pc = 1, !.iteration = @ + 1]
               ELSE [w EXCEPT !.pc = @ + 1]
    /\ UNCHANGED <<sys_modules, disk, alive, lastOp, saved, stale, call, pickling,
                   adapter, pool, fortran, search>>

\* The workflow is run again after a task raised: a new instance takes up
\* the list at that task, and the scratch directories of the solver are as
\* the failed run left them.
Resume ==
    /\ inversion.made
    /\ inversion.raised # "none"
    /\ inversion.log[Len(inversion.log)].op # "check"
    /\ inversion' = [inversion EXCEPT !.force = "None", !.raised = "none", !.log = <<>>]
    /\ UNCHANGED <<sys_modules, disk, alive, lastOp, saved, stale, call, pickling,
                   adapter, pool, fortran, search>>

\* The workflow and the scratch directories of its solver are given up.
Discard ==
    /\ inversion.made
    /\ inversion' = NoWorkflow
    /\ UNCHANGED <<sys_modules, disk, alive, lastOp, saved, stale, call, pickling,
                   adapter, pool, fortran, search>>

NextWorkflow ==
    \/ \E kernels \in KernelArgs : NewWorkflow(kernels)
    \/ \E steps \in 1..MaxSteps : RunNextTask(steps)
    \/ Resume
    \/ Discard

SpecWorkflow == Init /\ [][NextWorkflow]_vars

(***************************************************************************)
(* A Fortran binary file: written by _write or left by the solver, then    *)
(* read by _read.                                                          *)
(***************************************************************************)
\* _write(v, filename)
WriteFile(v) ==
    /\ ~fortran.written
    /\ fortran' = [fortran EXCEPT !.written = TRUE, !.by = "_write", !.v = v,
                                   !.file = _write(v), !.read = FALSE, !.data = <<>>]
    /\ UNCHANGED <<sys_modules, disk, alive, lastOp, saved, stale, call, pickling,
                   adapter, pool, inversion, search>>

\* The solver leaves a file of single precision values without record
\* markers.
SolverFile(v) ==
    /\ ~fortran.written
    /\ v # <<>>
    /\ fortran' = [fortran EXCEPT !.written = TRUE, !.by = "solver", !.v = v,
                                   !.file = [i \in DOMAIN v |-> float32(v[i])],
                                   !.read = FALSE, !.data = <<>>]
    /\ UNCHANGED <<sys_modules, disk, alive, lastOp, saved, stale, call, pickling,
                   adapter, pool, inversion, search>>

\* _read(filename)
ReadFile ==
    /\ fortran.written
    /\ ~fortran.read
    /\ fortran' = [fortran EXCEPT !.read = TRUE, !.data = _read(fortran.file)]
    /\ UNCHANGED <<sys_modules, disk, alive, lastOp, saved, stale, call, pickling,
                   adapter, pool, inversion, search>>

\* The file is removed.
RemoveFile ==
    /\ fortran.written
    /\ fortran' = NoFile
    /\ UNCHANGED <<sys_modules, disk, alive, lastOp, saved, stale, call, pickling,
                   adapter, pool, inversion, search>>

NextFortran ==
    \/ \E v \in Vectors : WriteFile(v)
    \/ \E v \in Vectors : SolverFile(v)
    \/ ReadFile
    \/ RemoveFile

SpecFortran == Init /\ [][NextFortran]_vars

(***************************************************************************)
(* The model slices of a working directory: the solver leaves them,        *)
(* write_slice writes them, copy_slice copies one, read_slice reads them.  *)
(***************************************************************************)
\* The solver leaves the slices of a model under path, one Fortran record
\* for each parameter.
SolverSlices(data, path, parameters, iproc) ==
    /\ fortran.files = EmptyDir
    /\ fortran.slice.op = "none"
    /\ fortran' = [fortran EXCEPT !.files =
           [f \in {read_slice_filename(path, iproc, parameters[i]) : i \in DOMAIN parameters}
               |-> _write(data)]]
    /\ UNCHANGED <<sys_modules, disk, alive, lastOp, saved, stale, call, pickling,
                   adapter, pool, inversion, search>>

\* A directory of that name is made in the working directory.
Mkdir(d) ==
    /\ d \notin fortran.dirs
    /\ fortran.slice.op = "none"
    /\ fortran' = [fortran EXCEPT !.dirs = @ \cup {d}]
    /\ UNCHANGED <<sys_modules, disk, alive, lastOp, saved, stale, call, pickling,
                   adapter, pool, inversion, search>>

\* write_slice(data, path, parameters, iproc)
WriteSlice(data, path, parameters, iproc) ==
    /\ fortran.slice.op = "none"
    /\ LET r == write_slice(fortran.files, fortran.dirs, data, path, parameters, iproc, 1)
       IN  fortran' = [fortran EXCEPT
               !.files = r.files,
               !.slice = [NoSlice EXCEPT
                   !.op = "write_slice", !.path = path, !.parameters = parameters,
                   !.iproc = iproc, !.raised = r.raised,
                   !.wrote = Some(data)]]
    /\ UNCHANGED <<sys_modules, disk, alive, lastOp, saved, stale, call, pickling,
                   adapter, pool, inversion, search>>

\* copy_slice(src, dst, iproc, parameter), once
CopySlice(src, dst, iproc, parameter) ==
    /\ fortran.slice.op \in {"none", "write_slice"}
    /\ ~fortran.slice.copied
    /\ LET r == copy_slice(fortran.files, fortran.dirs, src, dst, iproc, parameter)
       IN  fortran' = [fortran EXCEPT
               !.files = r.files,
               !.slice = [@ EXCEPT !.copied = TRUE]]
    /\ UNCHANGED <<sys_modules, disk, alive, lastOp, saved, stale, call, pickling,
                   adapter, pool, inversion, search>>

\* read_slice(path, parameters, iproc)
ReadSlice(path, parameters, iproc) ==
    /\ fortran.slice.op \in {"none", "write_slice"}
    /\ LET r == read_slice(fortran.files, path, parameters, iproc, 1, <<>>)
       IN  fortran' = [fortran EXCEPT
               !.slice = [@ EXCEPT
                   !.op = IF @ = "write_slice" /\ fortran.slice.path = path
                             /\ fortran.slice.parameters = parameters
                             /\ fortran.slice.iproc = iproc
                          THEN "read_slice_after_write" ELSE "read_slice",
                   !.path = path, !.parameters = parameters, !.iproc = iproc,
                   !.raised = r.raised, !.ret = r.ret]]
    /\ UNCHANGED <<sys_modules, disk, alive, lastOp, saved, stale, call, pickling,
                   adapter, pool, inversion, search>>

\* The working directory is cleaned.
CleanSlices ==
    /\ fortran # NoFile
    /\ fortran' = NoFile
    /\ UNCHANGED <<sys_modules, disk, alive, lastOp, saved, stale, call, pickling,
                   adapter, pool, inversion, search>>

NextSlices ==
    \/ \E data \in SliceData, path \in SlicePaths, parameters \in SliceParameters,
          iproc \in Procs : SolverSlices(data, path, parameters, iproc)
    \/ Mkdir(dirname(write_slice_filename(<<>>, 0, <<>>)))
    \/ \E data \in SliceData, path \in SlicePaths, parameters \in SliceParameters,
          iproc \in Procs : WriteSlice(data, path, parameters, iproc)
    \/ \E src \in SlicePaths, dst \in SlicePaths, iproc \in Procs, parameter \in SliceKeys :
          CopySlice(src, dst, iproc, parameter)
    \/ \E path \in SlicePaths, parameters \in SliceParameters, iproc \in Procs :
          ReadSlice(path, parameters, iproc)
    \/ CleanSlices

SpecSlices == Init /\ [][NextSlices]_vars

(***************************************************************************)
(* A run of Test.test_optimize.                                            *)
(***************************************************************************)
\* test_optimize is called: the set-up, then pdb.set_trace() (test.py:188),
\* from which the run goes on into the loop or is quit (BdbQuit).
StartTest(continue) ==
    /\ search.pc = "idle"
    /\ search' = [NoSearch EXCEPT !.pc = IF continue THEN "for" ELSE "quit"]
    /\ UNCHANGED <<sys_modules, disk, alive, lastOp, saved, stale, call, pickling,
                   adapter, pool, inversion, fortran>>

\* The head of an iteration of the for loop, test.py:189-191.
BeginIteration ==
    /\ search.pc = "for"
    /\ search.iteration < RangeEnd
    /\ search' = [search EXCEPT !.pc = "while", !.trials = 0,
                                !.log = <<Called("evaluate_gradient", 0, FALSE),
                                          Called("compute_direction", 0, FALSE)>>]
    /\ UNCHANGED <<sys_modules, disk, alive, lastOp, saved, stale, call, pickling,
                   adapter, pool, inversion, fortran>>

\* One step of the line search.
SearchStep(status, retry) ==
    /\ search.pc = "while"
    /\ search.trials < MaxTrials
    /\ search' = search_step(search, status, retry)
    /\ UNCHANGED <<sys_modules, disk, alive, lastOp, saved, stale, call, pickling,
                   adapter, pool, inversion, fortran>>

\* The run is over (it returned, exited or was quit) and is forgotten.
EndTest ==
    /\ search.pc \in {"returned", "exited", "quit"}
    /\ search' = NoSearch
    /\ UNCHANGED <<sys_modules, disk, alive, lastOp, saved, stale, call, pickling,
                   adapter, pool, inversion, fortran>>

NextSearch ==
    \/ \E continue \in BOOLEAN : StartTest(continue)
    \/ BeginIteration
    \/ \E status \in Statuses, retry \in BOOLEAN : SearchStep(status, retry)
    \/ EndTest

SpecSearch == Init /\ [][NextSearch]_vars

(***************************************************************************)
(* Properties of the checkpoint store.                                     *)
(***************************************************************************)
\* The session a directory holds is the one its last save call stored.
Holds(d, session) ==
    /\ d \in DOMAIN disk
    /\ Decoded(d).raised = "none"
    /\ SessionEq(Decoded(d).mods, session)

\* C1: round trip.  When save(D) has completed (every role had an entry
\* and both mappings existed) and a load(D) follows, every role entry and
\* both configuration mappings in memory equal what they were at the
\* moment of the save.
RoundTrip ==
    (lastOp.op = "load" /\ saved[lastOp.path] # None)
        => /\ lastOp.raised = "none"
           /\ SessionEq(sys_modules, saved[lastOp.path][1])

\* A load has replaced a memory that differed from the saved session, which
\* has an instance with advanced state and a disabled role.
RoundTripWitness ==
    /\ lastOp.op = "load" /\ lastOp.raised = "none" /\ lastOp.flag
    /\ saved[lastOp.path] # None
    /\ \E n \in NameSet : /\ sys_modules[ModKey(n)].kind = "inst"
                          /\ sys_modules[ModKey(n)].n > 0
    /\ \E n \in NameSet : sys_modules[ModKey(n)] = Null

\* C2: overwrite semantics.  A completed save of session B to a directory
\* that held the checkpoint of a different session A leaves a checkpoint
\* that loads as exactly B: the eight files, and no entry or key beyond B's.
OverwriteYieldsLatest ==
    (lastOp.op = "save" /\ lastOp.raised = "none" /\ lastOp.flag)
        => /\ DOMAIN disk[lastOp.path] = CheckpointFiles
           /\ Holds(lastOp.path, sys_modules)

\* A completed save has overwritten the checkpoint of a different session.
OverwriteWitness ==
    /\ lastOp.op = "save" /\ lastOp.raised = "none" /\ lastOp.flag
    /\ ModKey("paths") \in DOMAIN sys_modules
    /\ ~HasKey(sys_modules[ModKey("paths")], K_WORKDIR)

\* C3: load is all-or-nothing.  A load that fails (a file is missing or
\* unreadable) leaves the role entries and the configuration mappings in
\* memory equal to what they were before the call.
LoadAllOrNothing ==
    [][\A d \in Dirs : (load(d) /\ lastOp'.raised # "none")
                           => SessionEq(sys_modules', sys_modules)]_vars

\* C4: after a completed save to D, whatever runs later without another
\* save call to D (tasks, failing tasks, flush, load, a new process), D
\* still loads as the saved session.
CheckpointIntact ==
    \A d \in Dirs : saved[d] # None => Holds(d, saved[d][1])

\* A task has failed after the save and memory no longer equals the saved
\* session.
CheckpointIntactWitness ==
    /\ lastOp.op = "task" /\ lastOp.raised = "Exception"
    /\ \E d \in Dirs : saved[d] # None /\ ~SessionEq(sys_modules, saved[d][1])

\* C5 as claimed: in every reachable state the files of a directory all
\* come from one save call.
NeverMixed == \A d \in Dirs : stale[d] = {}

\* C5, amended: when the last save call to a directory has completed, its
\* files are the eight files of a checkpoint and all come from that call.
CompleteSaveNotMixed ==
    \A d \in Dirs : saved[d] # None => stale[d] = {} /\ DOMAIN disk[d] = CheckpointFiles

\* A completed save has replaced every file of an earlier checkpoint.
CompleteSaveWitness ==
    /\ lastOp.op = "save" /\ lastOp.raised = "none" /\ lastOp.flag
    /\ saved[lastOp.path] # None /\ stale[lastOp.path] = {}
    /\ \E n \in NameSet : sys_modules[ModKey(n)] = Null

(***************************************************************************)
(* Properties of flush and of the resolver.                                *)
(***************************************************************************)
\* C6: flush changes no file of any checkpoint directory.
FlushLeavesDisk == [][flush => disk' = disk]_vars

\* A flush has removed instances while a directory holds a checkpoint.
FlushLeavesDiskWitness ==
    /\ lastOp.op = "flush" /\ lastOp.flag
    /\ \E d \in Dirs : saved[d] # None /\ d \in DOMAIN disk

\* C7 as claimed: after flush, reading any of the six roles yields the null
\* sentinel and raises no error.
ReadAfterFlushIsNull ==
    (lastOp.op = "get" /\ lastOp.flag) => (lastOp.raised = "none" /\ lastOp.ret = Null)

\* C7, amended: after flush no role has an entry in sys.modules (so none
\* holds a component instance), and reading any of the six roles raises
\* KeyError and yields nothing.
ReadAfterFlushRaises ==
    /\ lastOp.op = "flush" => DOMAIN sys_modules \cap RoleKeys = {}
    /\ (lastOp.op = "get" /\ lastOp.flag)
           => (lastOp.raised = "KeyError" /\ lastOp.ret = NoReturn)

\* A role is read right after a flush, in a process that has its
\* configuration mappings.
ReadAfterFlushWitness ==
    /\ lastOp.op = "get" /\ lastOp.flag /\ lastOp.name = "workflow"
    /\ ModKey("parameters") \in DOMAIN sys_modules

\* The entry assembly gives a role under the parameters mapping pars: Null
\* when no implementation is configured, otherwise a fresh instance of a
\* class of the configured module.
EntryFor(mods, name, obj) ==
    LET par == ModKey("parameters")
        key == RoleKeyOf(name)
    IN  IF par \notin DOMAIN mods \/ ~HasKey(mods[par], key) \/ GetItem(mods[par], key) = None
        THEN obj = Null
        ELSE /\ obj.kind = "inst"
             /\ obj.dotted = <<"seisflows", name, GetItem(mods[par], key)[1]>>
             /\ obj.classname \in ModuleOf(obj.dotted).classes
             /\ obj.n = 0

NotConfigured(mods, name) ==
    \/ ModKey("parameters") \notin DOMAIN mods
    \/ ~HasKey(mods[ModKey("parameters")], RoleKeyOf(name))
    \/ GetItem(mods[ModKey("parameters")], RoleKeyOf(name)) = None

\* C9: resolving a valid role without an implementation name returns the
\* null sentinel, with no error, no module existence check and no import,
\* whenever the role has no configured implementation.
UnconfiguredResolvesNull ==
    (lastOp.op = "custom_import" /\ NotConfigured(sys_modules, lastOp.name))
        => /\ lastOp.ret = Null
           /\ lastOp.raised = "none"
           /\ \A i \in DOMAIN lastOp.events :
                  lastOp.events[i] \notin {"module_exists", "import_module", "getattr"}

\* A role whose parameter is None has been resolved.
UnconfiguredWitness ==
    /\ lastOp.op = "custom_import"
    /\ ModKey("parameters") \in DOMAIN sys_modules
    /\ HasKey(sys_modules[ModKey("parameters")], RoleKeyOf(lastOp.name))
    /\ GetItem(sys_modules[ModKey("parameters")], RoleKeyOf(lastOp.name)) = None
    /\ lastOp.ret = Null

\* C10: a completed save leaves a state file for every one of the six
\* roles; the file of a role whose entry was Null is a pickle (not a
\* missing or empty file) that loads as Null, and a load that follows
\* gives that role Null again.
DisabledRoleHasFile ==
    \A d \in Dirs : saved[d] # None =>
        \A n \in NameSet :
            /\ RoleFile(n) \in DOMAIN disk[d]
            /\ disk[d][RoleFile(n)].file = "pickle"
            /\ saved[d][1][ModKey(n)] = Null =>
                   /\ pickle_load(disk[d][RoleFile(n)]) = Null
                   /\ (lastOp.op = "load" /\ lastOp.path = d)
                          => (lastOp.raised = "none" /\ sys_modules[ModKey(n)] = Null)

\* A load has given a role Null from the file a save wrote for it, in a
\* memory where the role had no entry.
DisabledRoleWitness ==
    /\ lastOp.op = "load" /\ lastOp.raised = "none" /\ lastOp.flag
    /\ saved[lastOp.path] # None
    /\ saved[lastOp.path][1][ModKey("solver")] = Null
    /\ sys_modules[ModKey("solver")] = Null
    /\ disk[lastOp.path][RoleFile("solver")].file = "pickle"

(***************************************************************************)
(* Properties of the resolver called with explicit arguments.              *)
(***************************************************************************)
\* C11: resolving with a role that is not one of the six (or with no role)
\* fails before any configuration lookup, module existence check or
\* import, derives no class name and returns no component.
InvalidRoleFailsFirst ==
    (call.made /\ (call.name = None \/ call.name[1] \notin NameSet))
        => /\ call.exit
           /\ call.ret = NoReturn
           /\ call.events = <<>>
           /\ call.cls = None

\* A role that is not one of the six has been passed with the name of a
\* module that exists under another role.
InvalidRoleWitness ==
    /\ call.made /\ call.exit
    /\ call.name = Some("plugins")
    /\ call.module = Some(<<"t","e","s","t">>)

\* The role has a configured implementation whose module is not installed.
Missing(mods, name) ==
    /\ ~NotConfigured(mods, name)
    /\ ~module_exists(<<"seisflows", name,
                        GetItem(mods[ModKey("parameters")], RoleKeyOf(name))[1]>>)

\* C12: when an assembly resolves a role whose configured module does not
\* exist, the process ends (sys.exit): neither that role nor any later one
\* is given an entry, and the process takes no further step (no
\* resolution, no task); only a new process follows.
FatalOnMissingModule ==
    [][/\ ~alive => lastOp'.op = "start"
       /\ \A i \in DOMAIN NAMES :
              (lastOp'.op = "assemble" /\ Missing(sys_modules', NAMES[i]))
                  => /\ ~alive'
                     /\ lastOp'.raised = "SystemExit"
                     /\ \A j \in i..Len(NAMES) :
                            IF ModKey(NAMES[j]) \in DOMAIN sys_modules
                            THEN /\ ModKey(NAMES[j]) \in DOMAIN sys_modules'
                                 /\ sys_modules'[ModKey(NAMES[j])] = sys_modules[ModKey(NAMES[j])]
                            ELSE ModKey(NAMES[j]) \notin DOMAIN sys_modules']_vars

\* An assembly has ended the process at the solver, whose module is not
\* installed: preprocess has its instance, workflow (configured) has none.
FatalOnMissingWitness ==
    /\ lastOp.op = "assemble" /\ lastOp.raised = "SystemExit" /\ ~alive
    /\ Missing(sys_modules, "solver")
    /\ ModKey("preprocess") \in DOMAIN sys_modules
    /\ sys_modules[ModKey("preprocess")].kind = "inst"
    /\ ~NotConfigured(sys_modules, "workflow")
    /\ ModKey("workflow") \notin DOMAIN sys_modules

\* An implementation name of the kind the claim is about: lowercase words
\* joined by single underscores or hyphens.
IsDelimiter(c) == c \in {"_", "-"}
IsJoinedWords(m) ==
    /\ m # <<>>
    /\ \A i \in DOMAIN m : IsLower(m[i]) \/ IsDelimiter(m[i])
    /\ IsLower(m[1]) /\ IsLower(m[Len(m)])
    /\ \A i \in 1..(Len(m) - 1) : ~(IsDelimiter(m[i]) /\ IsDelimiter(m[i + 1]))

\* The words of m concatenated, each with its first letter capitalized;
\* the characters of dropped are removed, the other delimiters stay.
RECURSIVE Camel(_, _, _)
Camel(m, start, dropped) ==
    IF m = <<>> THEN <<>>
    ELSE IF Head(m) \in dropped THEN Camel(Tail(m), TRUE, dropped)
    ELSE IF IsDelimiter(Head(m)) THEN <<Head(m)>> \o Camel(Tail(m), TRUE, dropped)
    ELSE <<IF start THEN UpperChar(Head(m)) ELSE Head(m)>> \o Camel(Tail(m), FALSE, dropped)

\* The call has derived a class name from a name of joined words, with no
\* class name passed.
TranslatesName ==
    /\ call.made /\ call.cls # None
    /\ call.module # None /\ call.classname = None
    /\ IsJoinedWords(call.module[1])

OnePathPerSession ==
    [][/\ \A d \in Dirs :
              (lastOp.op = "assemble" /\ lastOp.raised = "none" /\ load(d))
                  => (lastOp'.raised # "none" /\ SessionEq(sys_modules', sys_modules))
       /\ \A supply \in {None} \cup {Some(x) : x \in Sessions} :
              (lastOp.op = "load" /\ lastOp.raised = "none" /\ Assemble(supply))
                  => (lastOp'.raised # "none" /\ SessionEq(sys_modules', sys_modules))]_vars

\* C20: a completed save(D) leaves the directory D in existence (whether
\* or not it existed before) with one JSON file per configuration mapping
\* and one pickle file per role, eight files in all, each named
\* seisflows_<identifier> with the extension of its kind.
SaveCreatesNamedFiles ==
    [][\A d \in Dirs :
          (save(d) /\ lastOp'.raised = "none")
              => /\ d \in DOMAIN disk'
                 /\ \A c \in ConfigSet :
                        /\ <<"seisflows_", c, ".json">> \in DOMAIN disk'[d]
                        /\ disk'[d][<<"seisflows_", c, ".json">>].file = "json"
                 /\ \A n \in NameSet :
                        /\ <<"seisflows_", n, ".p">> \in DOMAIN disk'[d]
                        /\ disk'[d][<<"seisflows_", n, ".p">>].file = "pickle"
                 /\ Cardinality(DOMAIN disk'[d]) = Len(CONFIGS) + Len(NAMES)]_vars

\* A first save to the directory has completed for a session with a
\* disabled role.
SaveCreatesWitness ==
    /\ lastOp.op = "save" /\ lastOp.raised = "none" /\ ~lastOp.flag
    /\ lastOp.path \in DOMAIN disk
    /\ sys_modules[ModKey("solver")] = Null
    /\ <<"seisflows_", "solver", ".p">> \in DOMAIN disk[lastOp.path]

(***************************************************************************)
(* Properties of the method pickling pair.                                 *)
(***************************************************************************)
\* C15: bound-callable round trip.  Encoding the bound method m of the
\* object o of type T gives the triple (name of m, o, T), and rebuilding
\* from the triple gives the method bound to o whose function is the
\* definition of the name in the first class of T's resolution order that
\* defines it: with the classes unchanged, m itself.
MethodRoundTrip ==
    pickling.op = "pickle"
        => /\ pickling.raised = "none"
           /\ pickling.ret = Reduce("_unpickle_method",
                                    <<pickling.func_name, pickling.obj, TypeOf(pickling.obj)>>)
           /\ _unpickle_method(pickling.func_name, pickling.obj, TypeOf(pickling.obj),
                               pickling.dicts) = Returned(pickling.method)

\* C16: when no class in the resolution order of the owning type defines
\* the function name, rebuilding raises and returns nothing; and a method
\* that is returned is bound to the object passed and to a function of
\* that name which a class of the resolution order defines.
UnpickleMissingRaises ==
    pickling.op = "unpickle"
        => IF \A i \in DOMAIN mro(pickling.cls) :
                  pickling.func_name \notin pickling.dicts[mro(pickling.cls)[i]]
           THEN pickling.raised # "none" /\ pickling.ret = NoReturn
           ELSE /\ pickling.raised = "none"
                /\ pickling.ret.kind = "method"
                /\ pickling.ret.attrs["__self__"] = pickling.obj
                /\ pickling.ret.attrs["__func__"].name = pickling.func_name
                /\ \E i \in DOMAIN mro(pickling.cls) :
                       /\ pickling.ret.attrs["__func__"].owner = mro(pickling.cls)[i]
                       /\ pickling.func_name \in pickling.dicts[mro(pickling.cls)[i]]

\* The method main of a Test instance with advanced state is rebuilt in a
\* process whose classes no longer define main.
UnpickleMissingWitness ==
    /\ pickling.op = "unpickle" /\ pickling.raised = "UnboundLocalError"
    /\ pickling.func_name = "main" /\ pickling.cls = TestClass
    /\ pickling.obj.n > 0
    /\ pickling.dicts # SourceDicts

\* The number of times the event e is in the log.
Count(e) == Cardinality({i \in DOMAIN adapter.log : adapter.log[i] = e})

\* C17: in every process the pair is registered at most once, exactly once
\* when seisflows.config has been imported, and every pickle.dump of a
\* role entry comes after the registration.
RegisteredBeforeDump ==
    /\ Count("register") <= 1
    /\ adapter.imported => Count("register") = 1
    /\ \A i \in DOMAIN adapter.log :
           adapter.log[i] = "dump"
               => \E j \in 1..(i - 1) : adapter.log[j] = "register"

\* A process has imported the module twice and dumped a role entry twice.
RegisteredBeforeDumpWitness ==
    /\ Count("import") >= 2 /\ Count("dump") >= 2
    /\ Count("register") = 1

(***************************************************************************)
(* Properties of the rotation calls.                                       *)
(***************************************************************************)
\* C18: join barrier.  When a rotation call returns, every job it was to
\* submit has been submitted and has finished (returned or raised): none
\* is pending or running.
JoinBarrier ==
    pool.pc = "returned"
        => /\ pool.todo = 0
           /\ \A j \in DOMAIN pool.jobs : pool.jobs[j] \in {"done", "failed"}

\* A call over two files or more has returned after every job was done.
JoinBarrierWitness ==
    /\ pool.pc = "returned" /\ Len(pool.jobs) >= 2
    /\ \A j \in DOMAIN pool.jobs : pool.jobs[j] = "done"

\* C19: a rotation call never returns normally when one of its jobs has
\* failed in its worker.
WorkerFailureSurfaces ==
    pool.pc = "returned" => \A j \in DOMAIN pool.jobs : pool.jobs[j] # "failed"

(***************************************************************************)
(* The task list of the NoiseInversion workflow.                           *)
(***************************************************************************)
\* The kernels selected: the names between the commas.
Selected(kernels) == {split(kernels, ",")[i] : i \in DOMAIN split(kernels, ",")}

\* C21: for every kernels value that is a comma-separated subset of ZZ, TT,
\* RR, the task list is generate_zz_kernels (there iff ZZ is selected),
\* then generate_tt_rr_kernels (there once iff TT or RR is selected), then
\* the five inversion tasks in their fixed order.
TaskListOrder ==
    (inversion.made /\ Selected(inversion.kernels) \subseteq {ZZ, TT, RR}) =>
        inversion.tasks =
            (IF ZZ \in Selected(inversion.kernels)
             THEN <<"generate_zz_kernels">> ELSE <<>>)
            \o (IF TT \in Selected(inversion.kernels) \/ RR \in Selected(inversion.kernels)
                THEN <<"generate_tt_rr_kernels">> ELSE <<>>)
            \o <<"postprocess_event_kernels", "evaluate_gradient_from_kernels",
                 "initialize_line_search", "perform_line_search",
                 "finalize_iteration">>

\* A workflow with the three kernels selected, TT and RR before ZZ: its task
\* list has both generating tasks, ZZ first.
TaskListWitness ==
    /\ inversion.made
    /\ inversion.kernels = JoinComma(<<RR, TT, ZZ>>)
    /\ Len(inversion.tasks) = 7
    /\ inversion.tasks[1] = "generate_zz_kernels"
    /\ inversion.tasks[2] = "generate_tt_rr_kernels"

(***************************************************************************)
(* The order of the files of save and load, and what a load replaces.      *)
(***************************************************************************)
\* The files of a checkpoint: the two configuration files, then the role
\* files in the order of the roles.
FileOrder ==
    << <<"seisflows_", "parameters", ".json">>, <<"seisflows_", "paths", ".json">>,
       <<"seisflows_", "system", ".p">>, <<"seisflows_", "preprocess", ".p">>,
       <<"seisflows_", "solver", ".p">>, <<"seisflows_", "postprocess", ".p">>,
       <<"seisflows_", "optimize", ".p">>, <<"seisflows_", "workflow", ".p">> >>

IsPrefix(s, t) == Len(s) <= Len(t) /\ \A i \in DOMAIN s : s[i] = t[i]

\* C22: save writes both configuration files before any role file and the
\* role files in the order system, preprocess, solver, postprocess,
\* optimize, workflow; load reads the files in that same order.  The files
\* of a call, in the order of their opening, are the first files of that
\* order, and all of them when the call completes.
SaveLoadOrder ==
    (lastOp.op \in {"save", "load"})
        => /\ IsPrefix(lastOp.events, FileOrder)
           /\ lastOp.raised = "none" => lastOp.events = FileOrder

\* A completed load of the eight files of a directory that a completed save
\* wrote.
SaveLoadOrderWitness ==
    /\ lastOp.op = "load" /\ lastOp.raised = "none"
    /\ Len(lastOp.events) = 8
    /\ saved[lastOp.path] # None

\* C23: a completed load(D) replaces the whole in-memory session: every one
\* of the six role entries and both configuration mappings are what the
\* files of D hold, whatever was in memory before the call; they are what a
\* load of D into an empty memory gives.
LoadReplacesSession ==
    (lastOp.op = "load" /\ lastOp.raised = "none")
        => /\ {ModKey(n) : n \in NameSet \cup ConfigSet} \subseteq DOMAIN sys_modules
           /\ sys_modules = Decoded(lastOp.path).mods

\* A completed load has replaced a memory that held a different session;
\* the session loaded has no working directory among its paths and role
\* entries that are Null.
LoadReplacesWitness ==
    /\ lastOp.op = "load" /\ lastOp.raised = "none" /\ lastOp.flag
    /\ ~HasKey(sys_modules[ModKey("paths")], K_WORKDIR)
    /\ \E n \in NameSet : sys_modules[ModKey(n)] = Null

\* The items of a mapping in another insertion order.
Reordered(items) ==
    {[i \in DOMAIN items |-> items[p[i]]] : p \in Permutations(DOMAIN items)}

\* C24: save is deterministic in the configuration.  After a completed
\* save each configuration file is the file any mapping with the same
\* (key, value) pairs gives, whatever its insertion order, and the keys of
\* the file are in ascending order.
SaveDeterministic ==
    (lastOp.op = "save" /\ lastOp.raised = "none")
        => \A c \in ConfigSet :
               LET f == disk[lastOp.path][<<"seisflows_", c, ".json">>]
               IN  /\ \A items \in Reordered(sys_modules[ModKey(c)].items) :
                          json_dump(Dict(items)) = f
                   /\ \A i, j \in DOMAIN f.members :
                          i < j => StrLess(f.members[i][1], f.members[j][1])

\* A completed save of a session whose parameters were not inserted in the
\* order of their keys.
SaveDeterministicWitness ==
    /\ lastOp.op = "save" /\ lastOp.raised = "none"
    /\ LET items == sys_modules[ModKey("parameters")].items
       IN  \E i, j \in DOMAIN items : i < j /\ StrLess(items[j][1], items[i][1])

(***************************************************************************)
(* The class name of a call with an override, and of an uppercase name.    *)
(***************************************************************************)
\* C25: when an override type name is passed to the resolver, the class
\* looked up in the implementation module is exactly that override,
\* whatever the implementation name; without an override, an
\* implementation name that is entirely uppercase (it has a letter and no
\* lowercase letter) is used unchanged as the class identifier.
OverrideOrUppercase ==
    (call.made /\ call.module # None /\ call.cls # None)
        => /\ call.classname # None => call.cls = call.classname
           /\ (/\ call.classname = None
               /\ \E i \in DOMAIN call.module[1] : IsUpper(call.module[1][i])
               /\ \A i \in DOMAIN call.module[1] : ~IsLower(call.module[1][i]))
                  => call.cls = call.module
           /\ call.ret.kind = "class"
                  => /\ call.ret.classname = call.cls[1]
                     /\ call.ret.dotted = <<"seisflows", call.name[1], call.module[1]>>

\* A call without an override for an uppercase name with an underscore: the
\* class sought is the name with its underscore.
OverrideOrUppercaseWitness ==
    /\ call.made /\ call.classname = None
    /\ call.module = Some(<<"A", "_", "B">>)
    /\ call.cls = Some(<<"A", "_", "B">>)

ForceSetBeforeSimulations ==
    \A i \in DOMAIN inversion.log :
        inversion.log[i].op \in {"run_forward_simulations", "prepare_data_for_solver"}
            => /\ inversion.log[i].force \in {"Z", "N", "E"}
               /\ inversion.log[i].outcome \notin {"AssertionError", "KeyError"}

\* The second iteration has begun: generate_zz_kernels has prepared the
\* data and run the forward simulations again.
ForceSetWitness ==
    /\ inversion.iteration = 2
    /\ \E i \in DOMAIN inversion.log : inversion.log[i].op = "prepare_data_for_solver"
    /\ \E i \in DOMAIN inversion.log : inversion.log[i].op = "run_forward_simulations"

\* C28: E and N wait for one another.  In every call of
\* generate_tt_rr_kernels the misfit evaluation with force E runs before
\* the one with force N; the rotation of the N and E synthetics with the
\* misfit that follows is never performed during the E pass, and it is
\* performed in the N pass once the forward simulations of both forces of
\* that call have produced their traces, and only then.
EAndNWait ==
    /\ \A i, j \in DOMAIN inversion.log :
           (/\ inversion.log[i].op = "evaluate_objective_function"
            /\ inversion.log[j].op = "evaluate_objective_function"
            /\ inversion.log[i].force = "E" /\ inversion.log[j].force = "N") => i < j
    /\ \A i \in DOMAIN inversion.log :
           (inversion.log[i].op = "evaluate_objective_function"
            /\ inversion.log[i].force \in {"E", "N"})
               => /\ inversion.log[i].force = "E" => inversion.log[i].outcome = "skipped"
                  /\ inversion.log[i].outcome = "rotated"
                         <=> (/\ inversion.log[i].force = "N"
                              /\ \A t \in DOMAIN inversion.log[i].traces :
                                     inversion.log[i].traces[t] = "new")

\* C29: prepare_data_for_solver selects the observed data by kernel: with
\* force Z it reads the ZZ directory only; with force N or E it reads the
\* RR directory iff RR is among the kernels and the TT directory iff TT is
\* among the kernels, and no other directory.
DataByKernel ==
    \A i \in DOMAIN inversion.log :
        (inversion.log[i].op = "prepare_data_for_solver"
         /\ inversion.log[i].outcome = "copied")
            => inversion.log[i].dirs =
                   IF inversion.log[i].force = "Z" THEN {ZZ}
                   ELSE {d \in {RR, TT} : d \in Selected(inversion.kernels)}

(***************************************************************************)
(* The round trip of a Fortran record.                                     *)
(***************************************************************************)
\* The integer a word holds when read as float32, for a word that holds one
\* of magnitude below 2^25; IsInteger tells whether it does.
Exponent(w) == (w[1] % 32768) \div 128 - 127
Significand(w) == 8388608 + (w[1] % 128) * 65536 + w[2]
IsInteger(w) ==
    \/ w = <<0, 0>>
    \/ /\ Exponent(w) \in 0..24
       /\ Exponent(w) < 23 => Significand(w) % 2^(23 - Exponent(w)) = 0
ValueOf(w) ==
    IF w = <<0, 0>> THEN 0
    ELSE LET a == IF Exponent(w) < 23 THEN Significand(w) \div 2^(23 - Exponent(w))
                  ELSE Significand(w) * 2^(Exponent(w) - 23)
         IN  IF w[1] >= 32768 THEN -a ELSE a

\* The values read are the values of v, one for one.
ReadsBack(v, data) ==
    /\ Len(data) = Len(v)
    /\ \A i \in DOMAIN v : IsInteger(data[i]) /\ ValueOf(data[i]) = v[i]

\* An integer that has at most 24 significant bits (magnitude below 2^25).
SinglePrecision(x) ==
    LET mag == IF x < 0 THEN -x ELSE x
    IN  mag <= 16777216 \/ mag % 2 = 0

\* C30, as claimed: for every finite sequence v of values, the empty one
\* included, _read of the file _write(v) produced returns exactly v.
RecordRoundTripAnyValue ==
    (fortran.read /\ fortran.by = "_write") => ReadsBack(fortran.v, fortran.data)

\* C30: for every finite sequence v, the empty one included, _read of the
\* file _write(v) produced returns a sequence of the length of v, the
\* leading and the trailing record marker removed and no value dropped, and
\* every value of v that is a single precision number comes back exactly;
\* for a sequence of single precision values _read returns exactly v.
RecordRoundTrip ==
    (fortran.read /\ fortran.by = "_write")
        => /\ Len(fortran.data) = Len(fortran.v)
           /\ fortran.file[1] = fortran.file[Len(fortran.file)]
           /\ as_int32(fortran.file[1]) = 4 * Len(fortran.v)
           /\ \A i \in DOMAIN fortran.v :
                  SinglePrecision(fortran.v[i])
                      => IsInteger(fortran.data[i]) /\ ValueOf(fortran.data[i]) = fortran.v[i]
           /\ (\A i \in DOMAIN fortran.v : SinglePrecision(fortran.v[i]))
                  => ReadsBack(fortran.v, fortran.data)

\* A file of three values, a negative one and the largest of the values
\* among them, has been written and read back.
RecordRoundTripWitness ==
    /\ fortran.read /\ fortran.by = "_write"
    /\ fortran.v = <<-1, 16777216, 0>>
    /\ Len(fortran.data) = 3

(***************************************************************************)
(* The round trip of a model slice.                                        *)
(***************************************************************************)
\* C31: write_slice(data, path, parameters, iproc) writes, for each key of
\* parameters, the file proc<iproc as 6 digits>_<key>.bin under path, the
\* name read_slice and copy_slice use, and read_slice(path, parameters,
\* iproc) afterwards returns the written data for every key.
SliceRoundTrip ==
    /\ fortran.slice.op = "write_slice"
           => /\ fortran.slice.raised = "none"
              /\ \A i \in DOMAIN fortran.slice.parameters :
                     /\ join(fortran.slice.path,
                             copy_slice_filename(fortran.slice.iproc,
                                                 fortran.slice.parameters[i]))
                            \in DOMAIN fortran.files
                     /\ read_slice_filename(fortran.slice.path, fortran.slice.iproc,
                                            fortran.slice.parameters[i])
                            \in DOMAIN fortran.files
    /\ (fortran.slice.op = "read_slice_after_write" /\ ~fortran.slice.copied)
           => /\ fortran.slice.raised = "none"
              /\ Len(fortran.slice.ret) = Len(fortran.slice.parameters)
              /\ \A i \in DOMAIN fortran.slice.ret :
                     ReadsBack(fortran.slice.wrote[1], fortran.slice.ret[i])

(***************************************************************************)
(* The line search of Test.test_optimize.                                  *)
(***************************************************************************)
\* The positions of the calls of one name in the log of the iteration.
CallsOf(name) == {i \in DOMAIN search.log : search.log[i].call = name}

\* The call at position i of the log has the given name.
IsCall(i, name) == i \in DOMAIN search.log /\ search.log[i].call = name

\* C32: in each iteration of test_optimize evaluate_gradient and then
\* compute_direction run once, before the line search; each line-search step
\* runs initialize_search, evaluate_function and update_search in that order;
\* finalize_search is called exactly when update_search returned a positive
\* status, and ends the line search of the iteration; on status zero the step
\* repeats; on a negative status restart is called iff retry_status is true,
\* otherwise the process exits without finalize_search.
SearchProtocol ==
    LET log == search.log
        last == Len(log)
    IN  /\ search.pc \in {"while", "for", "returned", "exited"} /\ log # <<>>
           => /\ CallsOf("evaluate_gradient") = {1}
              /\ CallsOf("compute_direction") = {2}
        /\ \A i \in CallsOf("initialize_search") :
              /\ IsCall(i + 1, "evaluate_function") /\ IsCall(i + 2, "update_search")
              /\ \/ IsCall(i - 1, "compute_direction")
                 \/ IsCall(i - 1, "update_search") /\ log[i - 1].status = 0
                 \/ IsCall(i - 1, "restart")
        /\ \A i \in CallsOf("evaluate_function") : IsCall(i - 1, "initialize_search")
        /\ \A i \in CallsOf("update_search") :
              /\ IsCall(i - 1, "evaluate_function")
              /\ log[i].status > 0 <=> IsCall(i + 1, "finalize_search")
              /\ log[i].status < 0 <=> IsCall(i + 1, "retry_status")
              /\ log[i].status = 0 /\ i < last => IsCall(i + 1, "initialize_search")
              /\ log[i].status = 0 /\ i = last => search.pc = "while"
        /\ \A i \in CallsOf("finalize_search") :
              /\ i = last
              /\ search.pc \in {"for", "returned"}
        /\ search.pc \in {"for", "returned"} /\ log # <<>> => IsCall(last, "finalize_search")
        /\ \A i \in CallsOf("retry_status") :
              /\ IsCall(i - 1, "update_search")
              /\ log[i].retry <=> IsCall(i + 1, "restart")
              /\ ~log[i].retry <=> IsCall(i + 1, "exit")
        /\ \A i \in CallsOf("restart") :
              /\ IsCall(i - 1, "retry_status")
              /\ i < last => IsCall(i + 1, "initialize_search")
              /\ i = last => search.pc = "while"
        /\ \A i \in CallsOf("exit") :
              /\ i = last
              /\ search.pc = "exited"
              /\ CallsOf("finalize_search") = {}
        /\ search.pc = "exited" => IsCall(last, "exit")

\* A line search that repeated a step on status zero, restarted on a
\* negative status and was then finalized on a positive one.
SearchProtocolWitness ==
    /\ search.pc = "for"
    /\ search.iteration = 3
    /\ CallsOf("restart") # {}
    /\ \E i \in CallsOf("update_search") : search.log[i].status = 0
    /\ IsCall(Len(search.log), "finalize_search")

(***************************************************************************)
(* The kernels that check accepts and the first task of the list.          *)
(***************************************************************************)
\* The workflow was refused by check.
Refused ==
    /\ inversion.raised = "AssertionError"
    /\ inversion.log # <<>>
    /\ inversion.log[Len(inversion.log)].op = "check"

GeneratingTasks == {"generate_zz_kernels", "generate_tt_rr_kernels"}

\* C33: check accepts the kernels setting exactly when every
\* comma-separated item is one of ZZ, TT, RR; the task list of an accepted
\* setting has at least one kernel-generating task, and these stand before
\* the standard inversion tasks; an empty kernels string is refused.
GeneratingTaskFirst ==
    inversion.made =>
        /\ ~Refused <=> Selected(inversion.kernels) \subseteq {ZZ, TT, RR}
        /\ ~Refused =>
              \E k \in 1..2 :
                  /\ Len(inversion.tasks) = k + 5
                  /\ \A i \in 1..k : inversion.tasks[i] \in GeneratingTasks
                  /\ \A i \in (k + 1)..(k + 5) : inversion.tasks[i] \notin GeneratingTasks
        /\ inversion.kernels = <<>> => Refused

\* A workflow accepted with the kernels "rr,rr": its list starts with
\* generate_tt_rr_kernels, followed by the five inversion tasks.
GeneratingTaskFirstWitness ==
    /\ inversion.made
    /\ ~Refused
    /\ inversion.kernels = JoinComma(<<RR, RR>>)
    /\ Len(inversion.tasks) = 6
    /\ inversion.tasks[1] = "generate_tt_rr_kernels"

MissingRoles(mods) == {i \in DOMAIN NAMES : ModKey(NAMES[i]) \notin DOMAIN mods}

FirstMissing(mods) ==
    CHOOSE i \in MissingRoles(mods) : \A j \in MissingRoles(mods) : i <= j

\* The outcome r of a save of the registry mods, one of whose roles has no
\* entry: KeyError, raised after the two configuration files and the files
\* of the roles before the first role without entry were written; the file
\* opened for that role holds nothing, and no file after it was opened.
FailsAtFirstMissing(mods, r) ==
    LET first == FirstMissing(mods)
    IN  /\ r.raised = "KeyError"
        /\ r.written = SubSeq(FileOrder, 1, 2 + first)
        /\ \A c \in ConfigSet :
              /\ ModKey(c) \in DOMAIN mods
              /\ r.files[ConfigFile(c)] = json_dump(mods[ModKey(c)])
        /\ \A j \in 1..(first - 1) :
              r.files[RoleFile(NAMES[j])] = pickle_dump(mods[ModKey(NAMES[j])])
        /\ r.files[RoleFile(NAMES[first])] = EmptyFile
        /\ r.files[RoleFile(NAMES[first])] # pickle_dump(Null)

\* The registry without the entry of one role.
Without(mods, name) == [k \in DOMAIN mods \ {ModKey(name)} |-> mods[k]]

\* C35 as stated: a save called when some role has no entry fails, writes
\* no null marker for the role, and fails only after both configuration
\* files and the files of the preceding roles were written.
SaveFailsAfterConfiguration ==
    (lastOp.op = "save" /\ MissingRoles(sys_modules) # {}) =>
        FailsAtFirstMissing(sys_modules,
                            [raised |-> lastOp.raised, written |-> lastOp.events,
                             files |-> disk[lastOp.path]])

\* C35: a save called when both configuration mappings are in memory and
\* some role has no entry (as directly after a flush) fails with KeyError
\* and writes no null marker for the role; it fails only after both
\* configuration files and the files of the preceding roles were written.
\* The same holds of a save of the session in memory less the entry of any
\* one role.
SaveNeedsEveryRole ==
    (\A c \in ConfigSet : ModKey(c) \in DOMAIN sys_modules) =>
        /\ (lastOp.op = "save" /\ MissingRoles(sys_modules) # {}) =>
              FailsAtFirstMissing(sys_modules,
                                  [raised |-> lastOp.raised, written |-> lastOp.events,
                                   files |-> disk[lastOp.path]])
        /\ \A n \in NameSet :
              FailsAtFirstMissing(Without(sys_modules, n),
                                  save_files(EmptyDir, Without(sys_modules, n)))

\* A save directly after the flush of an assembled session: it raised
\* KeyError on the first role, after the two configuration files; the
\* files of the five other roles are those of the save before the flush.
SaveNeedsEveryRoleWitness ==
    /\ lastOp.op = "save" /\ lastOp.raised = "KeyError"
    /\ DOMAIN sys_modules = {ModKey(c) : c \in ConfigSet}
    /\ lastOp.events = SubSeq(FileOrder, 1, 3)
    /\ disk[lastOp.path][RoleFile("system")] = EmptyFile
    /\ stale[lastOp.path] = {RoleFile(NAMES[i]) : i \in 2..Len(NAMES)}

====
